---- MODULE Spec2Model ----
(***************************************************************************)
(* Urban Stress Index map (usi-map): key detection, value normalisation,   *)
(* classification, popups and the GeoJSON load handler of the map page;    *)
(* the affordability calculator page.                                      *)
(*                                                                         *)
(* The repository holds several generations of the map script.  Each one   *)
(* is a stand-alone script; the model keeps them apart under `variant`:    *)
(*   "V2"    src/app.js 1-256            (V2.0)                            *)
(*   "V2City" src/unnamed/part_000 1-252 and 930-1190: V2.0 with the     *)
(*           calculator link carrying the city instead of the amounts    *)
(*   "V11"   src/app.js 260-538          (V1.1)                            *)
(*   "Final" src/app.js 540-777          (final production version)        *)
(*   "V0"    src/unnamed/part_000 482-710                                  *)
(*   "Clean" src/unnamed/part_000 711-929                                  *)
(*   "V1"    src/unnamed/part_001                                          *)
(* src/calculator.js likewise holds four generations of the calculator     *)
(* script, kept apart under calc.version:                                  *)
(*   "CalcA" 1-183    (Clean Final Version)                                *)
(*   "CalcB" 185-257                                                       *)
(*   "CalcC" 258-316                                                       *)
(*   "CalcD" 318-526  (Pie + PDF Final)                                    *)
(* and src/unnamed/part_000 253-481 holds an earlier one, "Calc0", which   *)
(* takes its defaults from a city parameter.                               *)
(*                                                                         *)
(* Numbers: a finite JavaScript number is kept in fixed point, as an       *)
(* integer count of 1/Scale units; NaN and the two infinities are separate *)
(* values.  Radii are kept in 1/RScale units so that every interpolation   *)
(* of the source is exact.  Floating-point rounding is not modelled.       *)
(***************************************************************************)
EXTENDS Integers, Sequences, FiniteSets, TLC

VARIABLES variant, call, ret, geojson, pc, keys, markers, popups, counts, alerts, thrown,
          active, calc

vars ==
  <<variant, call, ret, geojson, pc, keys, markers, popups, counts, alerts, thrown, active,
    calc>>

Variants == {"V2", "V2City", "V11", "Final", "V0", "Clean", "V1"}

\* ------------------------------------------------------------------ bounds
FracDigits == 1
NegGrid == 2
MaxGrid == 22
MaxCands == 3
MaxFeatures == 3
MaxEdits == 2

Pow10(k) == IF k = 0 THEN 1 ELSE IF k = 1 THEN 10 ELSE IF k = 2 THEN 100 ELSE 1000
Scale == Pow10(FracDigits)
RScale == 70 * Scale

\* ------------------------------------------------------- JavaScript values
JsVal(t, n, s) == [t |-> t, n |-> n, s |-> s]
Undefined == JsVal("undefined", 0, <<>>)
Null == JsVal("null", 0, <<>>)
NaN == JsVal("NaN", 0, <<>>)
PosInf == JsVal("Infinity", 1, <<>>)
NegInf == JsVal("Infinity", -1, <<>>)
\* a finite number, n in 1/Scale units
Num(n) == JsVal("number", n, <<>>)
\* the integer literal k
N(k) == Num(k * Scale)
\* a text value, s a sequence of characters
Str(s) == JsVal("string", 0, s)
Bool(b) == JsVal("boolean", IF b THEN 1 ELSE 0, <<>>)

Digits == <<"0", "1", "2", "3", "4", "5", "6", "7", "8", "9">>
IsDigit(c) == \E i \in 1..10 : Digits[i] = c
DigitVal(c) == (CHOOSE i \in 1..10 : Digits[i] = c) - 1
IsSpace(c) == c = " "

RECURSIVE TrimLeft(_)
TrimLeft(s) == IF s # <<>> /\ IsSpace(Head(s)) THEN TrimLeft(Tail(s)) ELSE s

RECURSIVE TrimRight(_)
TrimRight(s) ==
  IF s # <<>> /\ IsSpace(s[Len(s)]) THEN TrimRight(SubSeq(s, 1, Len(s) - 1)) ELSE s

\* value of a digit string read as an integer
RECURSIVE DigitsVal(_)
DigitsVal(s) ==
  IF s = <<>> THEN 0 ELSE 10 * DigitsVal(SubSeq(s, 1, Len(s) - 1)) + DigitVal(s[Len(s)])

AllDigits(s) == \A i \in 1..Len(s) : IsDigit(s[i])

\* the unsigned decimal literal  digits [. digits]  |  . digits  ; NaN otherwise
UnsignedToNumber(s) ==
  LET dots == {i \in 1..Len(s) : s[i] = "."}
  IN IF dots = {}
     THEN IF s # <<>> /\ AllDigits(s) THEN Num(DigitsVal(s) * Scale) ELSE NaN
     ELSE IF Cardinality(dots) > 1 THEN NaN
     ELSE LET d == CHOOSE i \in dots : TRUE
              ip == SubSeq(s, 1, d - 1)
              fp == SubSeq(s, d + 1, Len(s))
          IN IF (ip = <<>> /\ fp = <<>>) \/ ~AllDigits(ip) \/ ~AllDigits(fp)
             THEN NaN
             ELSE Num(DigitsVal(ip) * Scale + (DigitsVal(fp) * Scale) \div Pow10(Len(fp)))

\* Number(text): white space is trimmed, the empty text is 0, an optional
\* sign precedes a decimal literal, anything else is NaN
StringToNumber(s) ==
  LET t == TrimRight(TrimLeft(s))
  IN IF t = <<>> THEN Num(0)
     ELSE IF Head(t) = "-"
          THEN LET u == UnsignedToNumber(Tail(t))
               IN IF u.t = "number" THEN Num(0 - u.n) ELSE u
     ELSE IF Head(t) = "+" THEN UnsignedToNumber(Tail(t))
     ELSE UnsignedToNumber(t)

\* Number(x)
Number(x) ==
  CASE x.t = "undefined" -> NaN
    [] x.t = "null" -> Num(0)
    [] x.t = "boolean" -> Num(x.n * Scale)
    [] x.t = "string" -> StringToNumber(x.s)
    [] OTHER -> x

NumberIsFinite(n) == n.t = "number"

toNumber(x) ==
  LET n == Number(x)
  IN IF NumberIsFinite(n) THEN n ELSE Null

\* u < k for a finite number u and an integer literal k
LT(u, k) == u.n < k * Scale

\* -------------------------------------------------------------------- text
\* A text is a sequence of characters.
NA == <<"N", "/", "A">>

\* the decimal digits of a natural number
RECURSIVE NatToString(_)
NatToString(k) ==
  IF k < 10 THEN <<Digits[k + 1]>> ELSE NatToString(k \div 10) \o <<Digits[(k % 10) + 1]>>

RECURSIVE PadLeft(_, _)
PadLeft(s, w) == IF Len(s) >= w THEN s ELSE PadLeft(<<"0">> \o s, w)

RECURSIVE StripZeros(_)
StripZeros(s) ==
  IF s # <<>> /\ s[Len(s)] = "0" THEN StripZeros(SubSeq(s, 1, Len(s) - 1)) ELSE s

Abs(n) == IF n < 0 THEN 0 - n ELSE n

\* Number::toString of a finite number n (1/Scale units): the integer part,
\* then the fraction digits the number has, without trailing zeros
NumberToString(n) ==
  LET ip == NatToString(Abs(n) \div Scale)
      fp == StripZeros(PadLeft(NatToString(Abs(n) % Scale), FracDigits))
      body == IF fp = <<>> THEN ip ELSE ip \o <<".">> \o fp
  IN IF n < 0 THEN <<"-">> \o body ELSE body

\* String(x)
String(x) ==
  CASE x.t = "string" -> x.s
    [] x.t = "number" -> NumberToString(x.n)
    [] x.t = "undefined" -> <<"u", "n", "d", "e", "f", "i", "n", "e", "d">>
    [] x.t = "null" -> <<"n", "u", "l", "l">>
    [] x.t = "NaN" -> <<"N", "a", "N">>
    [] x.t = "Infinity" -> IF x.n > 0
                           THEN <<"I", "n", "f", "i", "n", "i", "t", "y">>
                           ELSE <<"-", "I", "n", "f", "i", "n", "i", "t", "y">>
    [] OTHER -> IF x.n = 1 THEN <<"t", "r", "u", "e">> ELSE <<"f", "a", "l", "s", "e">>

\* the truthiness the operators ||, ?: and ! test
Truthy(x) ==
  ~(\/ x.t \in {"undefined", "null", "NaN"}
    \/ (x.t = "number" /\ x.n = 0)
    \/ (x.t = "string" /\ x.s = <<>>)
    \/ (x.t = "boolean" /\ x.n = 0))

\* a || b
Or(a, b) == IF Truthy(a) THEN a ELSE b

\* the nearest integer to n / d for d > 0, ties away from zero
RoundHalfAway(n, d) ==
  LET q == (2 * Abs(n) + d) \div (2 * d)
  IN IF n < 0 THEN 0 - q ELSE q

\* Number::toFixed(dp) of a finite number n (1/Scale units)
toFixed(n, dp) ==
  LET r == RoundHalfAway(n * Pow10(dp), Scale)
      ip == NatToString(Abs(r) \div Pow10(dp))
      fp == PadLeft(NatToString(Abs(r) % Pow10(dp)), dp)
      body == IF dp = 0 THEN ip ELSE ip \o <<".">> \o fp
  IN IF n < 0 THEN <<"-">> \o body ELSE body

\* a plausible slip: a numeric value is shown in a fixed one-decimal format
keepDecimals_Fixed1(x) ==
  IF x = Undefined \/ x = Null \/ x = Str(<<>>) THEN NA
  ELSE LET n == toNumber(x)
       IN IF n = Null THEN String(x) ELSE toFixed(n.n, 1)

\* keepDecimals: "N/A" for undefined, null and the empty text, else String(x)
keepDecimals(x) ==
  IF x = Undefined \/ x = Null \/ x = Str(<<>>) THEN NA ELSE String(x)

\* a plausible slip: the null case of fmtIncome is dropped, null formats as 0
fmtIncome_NoNullCase(n) ==
  IF n = Null THEN <<"0">> ELSE NumberToString(RoundHalfAway(n.n, Scale) * Scale)

\* digit grouping in threes
RECURSIVE Group(_)
Group(s) ==
  IF Len(s) <= 3 THEN s
  ELSE Group(SubSeq(s, 1, Len(s) - 3)) \o <<",">> \o SubSeq(s, Len(s) - 2, Len(s))

\* fmtIncome: "N/A" for null, else toLocaleString with no fraction digits
\* (the grouping is that of the en-US locale)
fmtIncome(n) ==
  IF n = Null THEN NA
  ELSE LET r == RoundHalfAway(n.n, Scale)
       IN IF r < 0 THEN <<"-">> \o Group(NatToString(0 - r)) ELSE Group(NatToString(r))

\* ------------------------------------------------------------------- slugs
UpperCase ==
  <<"A", "B", "C", "D", "E", "F", "G", "H", "I", "J", "K", "L", "M", "N", "O", "P", "Q",
    "R", "S", "T", "U", "V", "W", "X", "Y", "Z">>
LowerCase ==
  <<"a", "b", "c", "d", "e", "f", "g", "h", "i", "j", "k", "l", "m", "n", "o", "p", "q",
    "r", "s", "t", "u", "v", "w", "x", "y", "z">>
IsUpper(c) == \E i \in 1..26 : UpperCase[i] = c
IsLower(c) == \E i \in 1..26 : LowerCase[i] = c

\* String::toLowerCase (the modelled texts are ASCII)
toLowerCase(s) ==
  [i \in 1..Len(s) |->
     IF IsUpper(s[i]) THEN LowerCase[CHOOSE k \in 1..26 : UpperCase[k] = s[i]] ELSE s[i]]

\* replace(/\s+/g, "-")
RECURSIVE DashSpaces(_)
DashSpaces(s) ==
  IF s = <<>> THEN <<>>
  ELSE IF IsSpace(Head(s)) THEN <<"-">> \o DashSpaces(TrimLeft(s))
  ELSE <<Head(s)>> \o DashSpaces(Tail(s))

\* replace(/[^\w\-]+/g, "")
RECURSIVE KeepWordChars(_)
KeepWordChars(s) ==
  IF s = <<>> THEN <<>>
  ELSE IF IsDigit(Head(s)) \/ IsUpper(Head(s)) \/ IsLower(Head(s)) \/ Head(s) \in {"_", "-"}
       THEN <<Head(s)>> \o KeepWordChars(Tail(s))
       ELSE KeepWordChars(Tail(s))

\* Final: slugify(str)
slugify(str) ==
  KeepWordChars(DashSpaces(TrimRight(TrimLeft(toLowerCase(String(Or(str, Str(<<>>))))))))

\* the part of path after its last "/"
RECURSIVE LastPart(_)
LastPart(path) ==
  IF \E i \in 1..Len(path) : path[i] = "/"
  THEN LastPart(SubSeq(path, (CHOOSE i \in 1..Len(path) :
                                 path[i] = "/" /\ \A j \in 1..(i - 1) : path[j] # "/") + 1,
                       Len(path)))
  ELSE path

\* s.replace(sub, ""): the first occurrence of sub is taken out
RemoveFirst(s, sub) ==
  LET At(i) == SubSeq(s, i, i + Len(sub) - 1) = sub
      Hits == {i \in 1..(Len(s) - Len(sub) + 1) : At(i)}
      Cut(i) == SubSeq(s, 1, i - 1) \o SubSeq(s, i + Len(sub), Len(s))
  IN IF Hits = {} THEN s ELSE Cut(CHOOSE i \in Hits : \A j \in Hits : i <= j)

\* Final: extractSlugFromPath(path)
extractSlugFromPath(path) == RemoveFirst(LastPart(path), <<".", "h", "t", "m", "l">>)

\* encodeURIComponent over the modelled texts: letters, digits and - _ . stay,
\* a blank becomes %20
RECURSIVE encodeURIComponent(_)
encodeURIComponent(s) ==
  IF s = <<>> THEN <<>>
  ELSE (IF Head(s) = " " THEN <<"%", "2", "0">> ELSE <<Head(s)>>)
         \o encodeURIComponent(Tail(s))

\* ----------------------------------------------------------- classification
\* six tiers: V2, V11, Final, Clean, V1
usiRating(u) ==
  IF u = Null THEN "Unknown"
  ELSE IF LT(u, 30) THEN "Comfortable"
  ELSE IF LT(u, 35) THEN "Stretched"
  ELSE IF LT(u, 40) THEN "High burden"
  ELSE IF LT(u, 45) THEN "Severe burden"
  ELSE IF LT(u, 55) THEN "Unaffordable"
  ELSE "Extreme"

\* five tiers: V0
usiRating_V0(usi) ==
  IF usi = Null THEN "Unknown"
  ELSE IF LT(usi, 30) THEN "Comfortable"
  ELSE IF LT(usi, 35) THEN "Stretched"
  ELSE IF LT(usi, 40) THEN "High burden"
  ELSE IF LT(usi, 45) THEN "Severe burden"
  ELSE "Unaffordable"

usiRatingOf(v, u) == IF v = "V0" THEN usiRating_V0(u) ELSE usiRating(u)

\* a plausible slip: the red threshold reuses the orange colour
getColor_SharedColor(u) ==
  IF u = Null THEN "#999"
  ELSE IF LT(u, 30) THEN "#2ecc71"
  ELSE IF LT(u, 35) THEN "#f1c40f"
  ELSE IF LT(u, 40) THEN "#e67e22"
  ELSE IF LT(u, 45) THEN "#e67e22"
  ELSE IF LT(u, 55) THEN "#6c3483"
  ELSE "#3b1f4a"

\* V2, Final, Clean
getColor(u) ==
  IF u = Null THEN "#999"
  ELSE IF LT(u, 30) THEN "#2ecc71"
  ELSE IF LT(u, 35) THEN "#f1c40f"
  ELSE IF LT(u, 40) THEN "#e67e22"
  ELSE IF LT(u, 45) THEN "#e74c3c"
  ELSE IF LT(u, 55) THEN "#6c3483"
  ELSE "#3b1f4a"

\* V11, V1
getColor_V11(usiNumber) ==
  IF usiNumber = Null THEN "#888888"
  ELSE IF LT(usiNumber, 30) THEN "#2ecc71"
  ELSE IF LT(usiNumber, 35) THEN "#f1c40f"
  ELSE IF LT(usiNumber, 40) THEN "#e67e22"
  ELSE IF LT(usiNumber, 45) THEN "#e74c3c"
  ELSE IF LT(usiNumber, 55) THEN "#6c3483"
  ELSE "#3b1f4a"

getColor_V0(usi) ==
  IF usi = Null THEN "#888888"
  ELSE IF LT(usi, 30) THEN "#2ecc71"
  ELSE IF LT(usi, 35) THEN "#f1c40f"
  ELSE IF LT(usi, 40) THEN "#e67e22"
  ELSE IF LT(usi, 45) THEN "#e74c3c"
  ELSE "#6c3483"

getColorOf(v, u) ==
  CASE v \in {"V2", "V2City", "Final", "Clean"} -> getColor(u)
    [] v \in {"V11", "V1"} -> getColor_V11(u)
    [] OTHER -> getColor_V0(u)

\* Radii are returned in 1/RScale units: R(k) is the radius k.
R(k) == k * RScale

\* V2: minR + (maxR - minR) * ((u - minU) / (maxU - minU)), not clamped
getRadius(u) ==
  IF u = Null THEN R(10)
  ELSE LET minR == 8
           maxR == 18
           minU == 0
           maxU == 100
       IN R(minR) + ((maxR - minR) * RScale * (u.n - minU * Scale)) \div ((maxU - minU) * Scale)

\* a plausible slip: the interpolation runs downwards from MAX_R
getRadius_Inverted(usiNumber) ==
  LET MIN_R == 6
      MAX_R == 14
  IN IF usiNumber = Null THEN R(MIN_R)
     ELSE LET lo == IF usiNumber.n < 60 * Scale THEN usiNumber.n ELSE 60 * Scale
              u == IF lo > 25 * Scale THEN lo ELSE 25 * Scale
          IN R(MAX_R) - ((u - 25 * Scale) * (MAX_R - MIN_R) * RScale) \div ((60 - 25) * Scale)

\* V11: clamp into [25, 60], then 25 -> MIN_R, 60 -> MAX_R
getRadius_V11(usiNumber) ==
  LET MIN_R == 6
      MAX_R == 14
  IN IF usiNumber = Null THEN R(MIN_R)
     ELSE LET lo == IF usiNumber.n < 60 * Scale THEN usiNumber.n ELSE 60 * Scale
              u == IF lo > 25 * Scale THEN lo ELSE 25 * Scale
          IN R(MIN_R) + ((u - 25 * Scale) * (MAX_R - MIN_R) * RScale) \div ((60 - 25) * Scale)

\* Final, Clean: minR + (maxR - minR) * (u / 100), not clamped
getRadius_Final(u) ==
  IF u = Null THEN R(10)
  ELSE LET minR == 8
           maxR == 18
       IN R(minR) + ((maxR - minR) * RScale * u.n) \div (100 * Scale)

\* V1: one radius per tier
getRadius_V1(usi) ==
  IF usi = Null THEN R(4)
  ELSE IF LT(usi, 30) THEN R(4)
  ELSE IF LT(usi, 35) THEN R(6)
  ELSE IF LT(usi, 40) THEN R(8)
  ELSE IF LT(usi, 45) THEN R(12)
  ELSE IF LT(usi, 55) THEN R(20)
  ELSE R(28)

\* V0: one radius per tier
getRadius_V0(usi) ==
  IF usi = Null THEN R(4)
  ELSE IF LT(usi, 30) THEN R(4)
  ELSE IF LT(usi, 35) THEN R(5)
  ELSE IF LT(usi, 40) THEN R(6)
  ELSE IF LT(usi, 45) THEN R(7)
  ELSE R(8)

getRadiusOf(v, u) ==
  CASE v \in {"V2", "V2City"} -> getRadius(u)
    [] v = "V11" -> getRadius_V11(u)
    [] v \in {"Final", "Clean"} -> getRadius_Final(u)
    [] v = "V1" -> getRadius_V1(u)
    [] OTHER -> getRadius_V0(u)

\* ------------------------------------------------------------ key detection
\* A record (feature properties) is a function from property names to JSON
\* values; a name outside its domain, or mapped to Undefined, is absent.
Get(obj, k) == IF k \in DOMAIN obj THEN obj[k] ELSE Undefined
hasOwnProperty(obj, k) == Get(obj, k) # Undefined

\* the unresolved key (JavaScript null)
NoKey == "<null>"

\* a plausible slip: a later match overwrites an earlier one
RECURSIVE pickFirstKey_LastMatch(_, _)
pickFirstKey_LastMatch(obj, candidates) ==
  IF candidates = <<>> THEN NoKey
  ELSE LET rest == pickFirstKey_LastMatch(obj, Tail(candidates))
       IN IF rest # NoKey THEN rest
          ELSE IF Get(obj, Head(candidates)) # Undefined THEN Head(candidates)
          ELSE NoKey

\* V2, Final
RECURSIVE pickFirstKey(_, _)
pickFirstKey(obj, candidates) ==
  IF candidates = <<>> THEN NoKey
  ELSE IF Get(obj, Head(candidates)) # Undefined THEN Head(candidates)
  ELSE pickFirstKey(obj, Tail(candidates))

\* V11 (props is an object here: the caller passes `... || {}`)
RECURSIVE pickFirstKey_V11(_, _)
pickFirstKey_V11(props, candidates) ==
  IF candidates = <<>> THEN NoKey
  ELSE IF /\ hasOwnProperty(props, Head(candidates))
          /\ Get(props, Head(candidates)) # Null
          /\ Get(props, Head(candidates)) # Str(<<>>)
       THEN Head(candidates)
  ELSE pickFirstKey_V11(props, Tail(candidates))

INDEX_KEYS_CANDIDATES ==
  <<"usi", "USI", "index", "score", "urban_stress_index", "urbanStressIndex">>

RECURSIVE pickIndexKeyFrom(_, _)
pickIndexKeyFrom(properties, cands) ==
  IF cands = <<>> THEN NoKey
  ELSE LET v == Get(properties, Head(cands))
       IN IF v # Undefined /\ v # Null /\ v # Str(<<>>) THEN Head(cands)
          ELSE pickIndexKeyFrom(properties, Tail(cands))

\* V0, V1 (the `!properties` early return is taken by the load handler)
pickIndexKey(properties) == pickIndexKeyFrom(properties, INDEX_KEYS_CANDIDATES)

\* the candidate list a resolution in variant v scans
EffCands(v, cands) == IF v \in {"V0", "V1"} THEN INDEX_KEYS_CANDIDATES ELSE cands

\* the key resolver of variant v ("Clean" calls pickKey, which no script defines)
HasResolver(v) == v # "Clean"
ResolveKey(v, obj, cands) ==
  CASE v \in {"V2", "V2City", "Final"} -> pickFirstKey(obj, cands)
    [] v = "V11" -> pickFirstKey_V11(obj, cands)
    [] OTHER -> pickIndexKey(obj)

\* ------------------------------------------------------- input universes
Thresholds == {0, 25, 30, 35, 40, 45, 55, 60, 100}
ScoreGrid ==
  {5 * k * Scale : k \in (0 - NegGrid)..MaxGrid}
    \cup {t * Scale + d : t \in Thresholds, d \in {-1, 0, 1}}
ScoreVals == {Num(n) : n \in ScoreGrid} \cup {Null}

TextUniverse ==
  { <<>>, <<" ">>, <<"a">>, <<"4", "0">>, <<"4", "0", ".", "0">>, <<"3", "4", ".", "5", "0">>,
    <<" ", "1", "0", " ">>, <<"-", "5">>, <<"+", "5">>, <<".", "5">>, <<"5", ".">>,
    <<"1", " ", "2">>, <<"-">>, <<".">>, <<"1", ".", "2", ".", "3">>, <<"4", "0", "a">> }
RawVals ==
  {Undefined, Null, NaN, PosInf, NegInf, Bool(TRUE), Bool(FALSE)}
    \cup {Str(s) : s \in TextUniverse}
    \cup {Num(n) : n \in {-15, 0, 5, 10 * Scale, 40 * Scale}}

PickKeys == {"usi", "USI", "urban_stress_index"}
PickVals == {Undefined, Null, Str(<<>>), N(40)}
PickObjs == [PickKeys -> PickVals]
CandLists == UNION {[1..n -> PickKeys] : n \in 0..MaxCands}

\* ------------------------------------------------------------------ calls
NoObj == [k \in PickKeys |-> Undefined]
MkCall(fn, a, b, x, obj, cands) ==
  [fn |-> fn, a |-> a, b |-> b, x |-> x, obj |-> obj, cands |-> cands]
NoCall == MkCall("none", Null, Null, Undefined, NoObj, <<>>)
ScoreCalls == {MkCall("score", a, b, Undefined, NoObj, <<>>) : a \in ScoreVals, b \in ScoreVals}
RawCalls == {MkCall("raw", Null, Null, x, NoObj, <<>>) : x \in RawVals}
PickCalls == {MkCall("pick", Null, Null, Undefined, o, c) : o \in PickObjs, c \in CandLists}

NoRet ==
  [did |-> {}, rating |-> <<"", "">>, color |-> <<"", "">>, radius |-> <<0, 0>>,
   num |-> Undefined, key |-> NoKey, threw |-> FALSE, text |-> <<>>]

\* ------------------------------------------------------------- page state
\* the calculator page is not open
NoCalc == [version |-> "none"]

NoKeys ==
  [usiKey |-> NoKey, cityKey |-> NoKey, countryKey |-> NoKey, housingPctKey |-> NoKey,
   foodPctKey |-> NoKey, rentMonthlyKey |-> NoKey, foodMonthlyKey |-> NoKey,
   incomeMonthlyKey |-> NoKey]
NoDoc == [features |-> <<>>]
NoCounts == [untallied |-> 0]
\* the active-reports list: the body of its response, the state of its load,
\* and the module variable activeCitySlugs
NoBody == [kind |-> "none", paths |-> <<>>]
NoActive == [pc |-> "none", body |-> NoBody, slugs |-> {}, failed |-> FALSE]

PageIdle ==
  /\ geojson = NoDoc
  /\ pc = "idle"
  /\ keys = NoKeys
  /\ markers = <<>>
  /\ popups = <<>>
  /\ counts = NoCounts
  /\ alerts = 0
  /\ thrown = ""
  /\ active = NoActive

PageVars == <<geojson, pc, keys, markers, popups, counts, alerts, thrown, active>>

\* ------------------------------------------- the helpers applied to inputs
InitPure ==
  /\ variant \in Variants
  /\ call \in ScoreCalls \cup RawCalls \cup PickCalls
  /\ ret = NoRet
  /\ PageIdle
  /\ calc = NoCalc

CallUsiRating ==
  /\ call.fn = "score"
  /\ "usiRating" \notin ret.did
  /\ ret' = [ret EXCEPT !.did = @ \cup {"usiRating"},
                        !.rating = <<usiRatingOf(variant, call.a), usiRatingOf(variant, call.b)>>]
  /\ UNCHANGED <<variant, call, PageVars, calc>>

CallGetColor ==
  /\ call.fn = "score"
  /\ "getColor" \notin ret.did
  /\ ret' = [ret EXCEPT !.did = @ \cup {"getColor"},
                        !.color = <<getColorOf(variant, call.a), getColorOf(variant, call.b)>>]
  /\ UNCHANGED <<variant, call, PageVars, calc>>

CallGetRadius ==
  /\ call.fn = "score"
  /\ "getRadius" \notin ret.did
  /\ ret' = [ret EXCEPT !.did = @ \cup {"getRadius"},
                        !.radius = <<getRadiusOf(variant, call.a), getRadiusOf(variant, call.b)>>]
  /\ UNCHANGED <<variant, call, PageVars, calc>>

CallToNumber ==
  /\ call.fn = "raw"
  /\ "toNumber" \notin ret.did
  /\ ret' = [ret EXCEPT !.did = @ \cup {"toNumber"}, !.num = toNumber(call.x)]
  /\ UNCHANGED <<variant, call, PageVars, calc>>

\* keepDecimals(x); the scripts "V0" and "V1" have no such helper
CallKeepDecimals ==
  /\ call.fn = "raw"
  /\ variant \in {"V2", "V2City", "V11", "Final", "Clean"}
  /\ "keepDecimals" \notin ret.did
  /\ ret' = [ret EXCEPT !.did = @ \cup {"keepDecimals"}, !.text = keepDecimals(call.x)]
  /\ UNCHANGED <<variant, call, PageVars, calc>>

\* one key resolution; in "Clean" the call of the undefined pickKey throws
CallPickFirstKey ==
  /\ call.fn = "pick"
  /\ "pick" \notin ret.did
  /\ ret' = IF HasResolver(variant)
            THEN [ret EXCEPT !.did = @ \cup {"pick"},
                             !.key = ResolveKey(variant, call.obj, call.cands)]
            ELSE [ret EXCEPT !.did = @ \cup {"pick"}, !.threw = TRUE]
  /\ UNCHANGED <<variant, call, PageVars, calc>>

NextPure ==
  \/ CallUsiRating
  \/ CallGetColor
  \/ CallGetRadius
  \/ CallToNumber
  \/ CallKeepDecimals
  \/ CallPickFirstKey

SpecPure == InitPure /\ [][NextPure]_vars

\* ========================================================= the calculator
CalcVersions == {"CalcA", "CalcB", "CalcC", "CalcD"}
PageVersions == CalcVersions \cup {"Calc0"}
InputIds ==
  {"income", "housing", "food", "utilities", "public-transport", "car", "clothing",
   "discretionary"}
Elements ==
  InputIds \cup {"remaining-cell", "pieChart", "calc-btn", "result-title", "remaining-text"}

\* the longest prefix of digits
RECURSIVE DigitPrefix(_)
DigitPrefix(s) ==
  IF s # <<>> /\ IsDigit(Head(s)) THEN <<Head(s)>> \o DigitPrefix(Tail(s)) ELSE <<>>

\* parseFloat(x): leading white space is skipped, then the longest prefix
\* [sign] digits [. digits] | [sign] . digits is read; NaN when there is none
\* (exponents and the Infinity literal are outside the modelled texts)
parseFloat(x) ==
  LET Fraction(r) == IF r # <<>> /\ Head(r) = "." THEN DigitPrefix(Tail(r)) ELSE <<>>
      Magnitude(ip, fp) ==
        IF ip = <<>> /\ fp = <<>> THEN NaN
        ELSE Num(DigitsVal(ip) * Scale + (DigitsVal(fp) * Scale) \div Pow10(Len(fp)))
      Unsigned(u, ip) == Magnitude(ip, Fraction(SubSeq(u, Len(ip) + 1, Len(u))))
      Signed(t, m) == IF m.t = "number" /\ Head(t) = "-" THEN Num(0 - m.n) ELSE m
      Text(t, u) == Signed(t, Unsigned(u, DigitPrefix(u)))
      Trimmed(t) == Text(t, IF t # <<>> /\ Head(t) \in {"-", "+"} THEN Tail(t) ELSE t)
  IN Trimmed(TrimLeft(String(x)))

\* Math.round of n (1/Scale units), as an integer: ties go up
MathRound(n) == (2 * n + Scale) \div (2 * Scale)

\* income * pct / 100; the products of the modelled queries are exact
Share(income, pct) == (income.n * pct.n) \div (100 * Scale)

\* getNum / getVal: el ? parseFloat(el.value) || 0 : 0
getNum(c, id) ==
  IF id \in c.present THEN Or(parseFloat(Str(c.fields[id])), Num(0)) ELSE Num(0)

\* fmt2: toLocaleString with exactly two fraction digits (en-US grouping)
fmt2(n) ==
  LET t == toFixed(Abs(n), 2)
      body == Group(SubSeq(t, 1, Len(t) - 3)) \o SubSeq(t, Len(t) - 2, Len(t))
  IN IF n < 0 THEN <<"-">> \o body ELSE body

Max(a, b) == IF a >= b THEN a ELSE b

\* a plausible slip: the text is clamped like the chart slice
RemainingText_Clamped(version, remaining) ==
  IF version = "CalcD" THEN fmt2(Max(remaining, 0)) ELSE toFixed(Max(remaining, 0), 2)

\* the text calculate puts into the remaining cell
RemainingText(version, remaining) ==
  IF version = "CalcD" THEN fmt2(remaining) ELSE toFixed(remaining, 2)

\* the element writes of loadFromURL, one after the other; a version that
\* does not look whether the element exists throws at the first missing one
RECURSIVE WriteFields(_, _, _)
WriteFields(c, writes, guarded) ==
  IF writes = <<>> THEN c
  ELSE LET id == Head(writes)[1]
           text == Head(writes)[2]
       IN IF id \in c.present
          THEN WriteFields([c EXCEPT !.fields[id] = text], Tail(writes), guarded)
          ELSE IF guarded THEN WriteFields(c, Tail(writes), guarded)
          ELSE [c EXCEPT !.error = "TypeError"]

\* a plausible slip: the early return on a zero income is left out
loadFromURL_NoIncomeGuard(c) ==
  LET Fill(income, housingPct, foodPct) ==
        WriteFields(c, << <<"income", toFixed(income.n, 2)>>,
                          <<"housing", toFixed(Share(income, housingPct), 2)>>,
                          <<"food", toFixed(Share(income, foodPct), 2)>> >>,
                    TRUE)
  IN IF c.version = "CalcC" THEN c
     ELSE Fill(Or(parseFloat(c.query.income), Num(0)),
               Or(parseFloat(c.query.housingPct), Num(0)),
               Or(parseFloat(c.query.foodPct), Num(0)))

\* loadFromURL ("CalcC" has none)
loadFromURL(c) ==
  LET Fill(income, housingValue, foodValue) ==
        CASE c.version = "CalcA" ->
               WriteFields(c, << <<"income", NumberToString(MathRound(income.n) * Scale)>>,
                                 <<"housing", NumberToString(MathRound(housingValue) * Scale)>>,
                                 <<"food", NumberToString(MathRound(foodValue) * Scale)>> >>,
                           FALSE)
          [] c.version = "CalcB" ->
               WriteFields(c, << <<"income", NumberToString(income.n)>>,
                                 <<"housing", NumberToString(housingValue)>>,
                                 <<"food", NumberToString(foodValue)>> >>,
                           FALSE)
          [] OTHER ->
               \* setNum(id, value, 2): el.value = roundTo(value, 2)
               WriteFields(c, << <<"income", toFixed(income.n, 2)>>,
                                 <<"housing", toFixed(housingValue, 2)>>,
                                 <<"food", toFixed(foodValue, 2)>> >>,
                           TRUE)
      Params(income, housingPct, foodPct) ==
        IF c.version = "CalcC" \/ ~Truthy(income) THEN c
        ELSE Fill(income, Share(income, housingPct), Share(income, foodPct))
  IN Params(Or(parseFloat(c.query.income), Num(0)),
            Or(parseFloat(c.query.housingPct), Num(0)),
            Or(parseFloat(c.query.foodPct), Num(0)))

\* Calc0: loadCityDefaults; the page is opened without a city parameter, so
\* it returns before it fetches anything
loadCityDefaults(c) == c

\* a plausible slip: the last line item is left out of the sum
Total_NoDiscretionary(v) ==
  v["housing"].n + v["food"].n + v["utilities"].n + v["public-transport"].n
    + v["car"].n + v["clothing"].n

\* housing + food + utilities + transport + car + clothing + discretionary
Total(v) ==
  v["housing"].n + v["food"].n + v["utilities"].n + v["public-transport"].n
    + v["car"].n + v["clothing"].n + v["discretionary"].n

\* a plausible slip: the old chart is not destroyed before the new one is made
updatePie_NoDestroy(c, v, remaining) ==
  IF c.version \in {"CalcB", "CalcC"} \/ "pieChart" \notin c.present THEN c
  ELSE [c EXCEPT !.chart = <<v["housing"].n, v["food"].n, v["utilities"].n,
                            v["public-transport"].n, v["car"].n, v["clothing"].n,
                            v["discretionary"].n, Max(remaining, 0)>>,
                 !.live = @ + 1]

\* updatePie: the chart data after the call and the number of live charts.
\* "CalcB" and "CalcC" draw no chart.
updatePie(c, v, remaining) ==
  LET data == <<v["housing"].n, v["food"].n, v["utilities"].n, v["public-transport"].n,
                v["car"].n, v["clothing"].n, v["discretionary"].n, Max(remaining, 0)>>
      destroyed == IF c.chart # <<>> THEN c.live - 1 ELSE c.live
  IN IF c.version \in {"CalcB", "CalcC"} \/ "pieChart" \notin c.present THEN c
     ELSE IF c.version = "CalcD" /\ Total(v) + Max(remaining, 0) <= 0
          THEN [c EXCEPT !.chart = <<>>, !.live = destroyed]
          ELSE [c EXCEPT !.chart = data, !.live = destroyed + 1]

\* Calc0: updatePieChart
updatePieChart(c, v, remaining) ==
  LET Destroyed(live) == IF c.chart # <<>> THEN live - 1 ELSE live
  IN IF "pieChart" \notin c.present THEN c
     ELSE [c EXCEPT !.chart = <<v["housing"].n, v["food"].n, v["utilities"].n,
                               v["public-transport"].n, v["car"].n, v["clothing"].n,
                               v["discretionary"].n, Max(remaining, 0)>>,
                    !.live = Destroyed(@) + 1]

\* Calc0: calculate; displayResult writes the text of #remaining-text without
\* looking whether the element exists, and the chart is updated after it
\* (the #result container is taken to exist)
calculate_Calc0(c) ==
  LET Done(out, total, remaining) ==
        [out EXCEPT !.calculated = TRUE, !.total = total, !.remaining = remaining]
      Outputs(v, total, remaining) ==
        IF "remaining-text" \notin c.present
        THEN [c EXCEPT !.error = "TypeError"]
        ELSE Done(updatePieChart([c EXCEPT !.cell = toFixed(remaining, 2)], v, remaining),
                  total, remaining)
      Sums(v, total) == Outputs(v, total, v["income"].n - total)
      Read(v) == Sums(v, Total(v))
  IN Read([id \in InputIds |-> getNum(c, id)])

\* calculate
calculate(c) ==
  LET Shown(remaining) ==
        IF "remaining-cell" \in c.present
        THEN [c EXCEPT !.cell = RemainingText(c.version, remaining)]
        ELSE c
      Done(out, total, remaining) ==
        [out EXCEPT !.calculated = TRUE, !.total = total, !.remaining = remaining]
      \* the last version sets the text of the result title
      Titled(out) ==
        IF c.version = "CalcD" /\ "result-title" \in c.present
        THEN [out EXCEPT !.titled = TRUE]
        ELSE out
      Outputs(v, total, remaining) ==
        Done(Titled(updatePie(Shown(remaining), v, remaining)), total, remaining)
      Sums(v, total) == Outputs(v, total, v["income"].n - total)
      Read(v) == Sums(v, Total(v))
  IN Read([id \in InputIds |-> getNum(c, id)])

\* ------------------------------------------------- calculator: inputs
NoParam == Null
Query(income, housingPct, foodPct) ==
  [income |-> income, housingPct |-> housingPct, foodPct |-> foodPct]
Queries ==
  { Query(Str(<<"5", "0", "0", "0">>), Str(<<"3", "0">>), Str(<<"1", "5">>)),
    Query(Str(<<"1", "0", "0", "5">>), Str(<<"3", "0">>), Str(<<"0">>)),
    Query(Str(<<"1", "0", "0", "0", ".", "5">>), Str(<<"2", "0">>), NoParam),
    Query(Str(<<"2", "0", "0", "0">>), Str(<<"3", "4", ".", "5">>), Str(<<"a", "b", "c">>)),
    Query(Str(<<"0">>), Str(<<"3", "0">>), Str(<<"1", "5">>)),
    Query(Str(<<"a", "b", "c">>), Str(<<"3", "0">>), Str(<<"1", "5">>)),
    Query(NoParam, NoParam, NoParam) }

Form(income, housing, food, utilities, transport, car, clothing, discretionary) ==
  [id \in InputIds |->
     CASE id = "income" -> income
       [] id = "housing" -> housing
       [] id = "food" -> food
       [] id = "utilities" -> utilities
       [] id = "public-transport" -> transport
       [] id = "car" -> car
       [] id = "clothing" -> clothing
       [] OTHER -> discretionary]
Forms ==
  { Form(<<>>, <<>>, <<>>, <<>>, <<>>, <<>>, <<>>, <<>>),
    Form(<<"2", "0", "0", "0">>, <<"2", "5", "0", "0">>, <<>>, <<"0">>, <<>>, <<>>, <<>>, <<>>),
    Form(<<"3", "0", "0", "0">>, <<"1">>, <<"2">>, <<"4">>, <<"8">>, <<"1", "6">>,
         <<"3", "2">>, <<"6", "4">>),
    Form(<<"4", "0", "0", "0">>, <<"1", "2", "a", "b", "c">>, <<"a", "b", "c">>, <<>>,
         <<" ", "7">>, <<"-", "5">>, <<".", "5">>, <<"1", ".", "5", ".", "2">>) }

\* the pages: every element there, or one of them missing
Pages ==
  {Elements} \cup {Elements \ {e} : e \in {"car", "remaining-cell", "pieChart", "housing",
                                            "calc-btn", "result-title", "remaining-text"}}

EditIds == {"income", "housing", "car"}
EditTexts == {<<>>, <<"a", "b", "c">>, <<"2", "5", "0", "0">>}

\* ------------------------------------------------ calculator: handlers
InitCalc ==
  /\ variant = "Final"
  /\ call = NoCall
  /\ ret = NoRet
  /\ PageIdle
  /\ \E version \in PageVersions, query \in Queries, present \in Pages, fields \in Forms :
       calc = [version |-> version, query |-> query, present |-> present, fields |-> fields,
               loaded |-> FALSE, wired |-> {}, last |-> "none", calculated |-> FALSE,
               total |-> 0, remaining |-> 0, cell |-> <<>>, chart |-> <<>>, live |-> 0,
               error |-> "", edits |-> 0, titled |-> FALSE]

\* setupCalculate / the wiring listener: the click on calc-btn
WireClick(c) == IF "calc-btn" \in c.present THEN [c EXCEPT !.wired = @ \cup {"click"}] ELSE c

\* the DOMContentLoaded listeners of the version, in order
DOMContentLoaded ==
  /\ calc.version \in PageVersions
  /\ ~calc.loaded
  /\ \E c0 \in {[calc EXCEPT !.loaded = TRUE, !.last = "DOMContentLoaded"]} :
     \E c1 \in {IF calc.version = "Calc0" THEN loadCityDefaults(c0) ELSE loadFromURL(c0)} :
     \E c2 \in {WireClick(c1)} :
       calc' = CASE calc.version = "CalcA" ->
                      \* a throw in loadFromURL ends the one listener
                      IF c1.error # "" THEN c1 ELSE c2
                 [] calc.version \in {"CalcB", "CalcC"} ->
                      \* loadFromURL (none in "CalcC") and the wiring are
                      \* separate listeners
                      c2
                 [] calc.version = "Calc0" ->
                      \* loadCityDefaults(); setupCalculateButton()
                      c2
                 [] OTHER ->
                      \* loadFromURL(); wireEvents(); calculate()
                      calculate([c2 EXCEPT !.wired = @ \cup {"input"}])
  /\ UNCHANGED <<variant, call, ret, PageVars>>

\* a click on the calculate button
Click ==
  /\ calc.version \in PageVersions
  /\ calc.loaded
  /\ "click" \in calc.wired
  /\ \E c \in {[calc EXCEPT !.last = "click"]} :
       calc' = IF calc.version = "Calc0" THEN calculate_Calc0(c) ELSE calculate(c)
  /\ UNCHANGED <<variant, call, ret, PageVars>>

\* a plausible slip: the input listener does not recompute
Edit_NoRecompute ==
  /\ calc.version \in PageVersions
  /\ calc.loaded
  /\ calc.edits < MaxEdits
  /\ \E id \in EditIds \cap calc.present, text \in EditTexts :
       calc' = [calc EXCEPT !.fields[id] = text, !.edits = @ + 1, !.last = "input",
                            !.calculated = FALSE]
  /\ UNCHANGED <<variant, call, ret, PageVars>>

\* the user edits a numeric field; its input listener, if wired, runs calculate
Edit ==
  /\ calc.version \in PageVersions
  /\ calc.loaded
  /\ calc.edits < MaxEdits
  /\ \E id \in EditIds \cap calc.present, text \in EditTexts :
       \E c \in {[calc EXCEPT !.fields[id] = text, !.edits = @ + 1, !.last = "input",
                               !.calculated = FALSE]} :
         calc' = IF "input" \in calc.wired THEN calculate(c) ELSE c
  /\ UNCHANGED <<variant, call, ret, PageVars>>

NextCalc ==
  \/ DOMContentLoaded
  \/ Click
  \/ Edit

SpecCalc == InitCalc /\ [][NextCalc]_vars

\* ======================================================== claims, SpecPure
IsNum(v) == v.t = "number"
Proper(v) == v # Undefined /\ v # Null /\ v # Str(<<>>)

TierRank(tier) ==
  CASE tier = "Comfortable" -> 1
    [] tier = "Stretched" -> 2
    [] tier = "High burden" -> 3
    [] tier = "Severe burden" -> 4
    [] tier = "Unaffordable" -> 5
    [] tier = "Extreme" -> 6
    [] OTHER -> 0

\* the tier the closed-open intervals of the specification give a score
IntervalTier(u) ==
  IF u = Null THEN "Unknown"
  ELSE CASE u.n < 30 * Scale -> "Comfortable"
         [] 30 * Scale <= u.n /\ u.n < 35 * Scale -> "Stretched"
         [] 35 * Scale <= u.n /\ u.n < 40 * Scale -> "High burden"
         [] 40 * Scale <= u.n /\ u.n < 45 * Scale -> "Severe burden"
         [] 45 * Scale <= u.n /\ u.n < 55 * Scale -> "Unaffordable"
         [] u.n >= 55 * Scale -> "Extreme"

\* C1: usiRating maps null to Unknown and every numeric score to the tier of
\* its closed-open interval (<30, [30,35), [35,40), [40,45), [45,55), >=55
\* Extreme), so that a <= b never gives a a higher tier than b.
C1_ClassifyByIntervals ==
  "usiRating" \in ret.did =>
    /\ ret.rating[1] = IntervalTier(call.a)
    /\ ret.rating[2] = IntervalTier(call.b)
    /\ (IsNum(call.a) /\ IsNum(call.b) /\ call.a.n <= call.b.n)
         => TierRank(ret.rating[1]) <= TierRank(ret.rating[2])

\* C2: toNumber returns null for an absent, null, empty-text, non-numeric
\* text, NaN or infinite raw value and the parsed number otherwise; it never
\* returns 0 for an empty text or a null.
C2_ToNumberNullOnMissing ==
  "toNumber" \in ret.did =>
    LET x == call.x
        missing ==
          \/ x \in {Undefined, Null, NaN, PosInf, NegInf}
          \/ x.t = "string" /\ (x.s = <<>> \/ Number(x) = NaN)
    IN /\ missing => ret.num = Null
       /\ ~missing => ret.num = Number(x)
       /\ x \in {Null, Str(<<>>)} => ret.num # Num(0)

\* C4: for every numeric score, below 0 and above 100 included, the radius
\* getRadius returns lies in [8, 18].
C4_RadiusInRange ==
  "getRadius" \in ret.did =>
    /\ IsNum(call.a) => (R(8) <= ret.radius[1] /\ ret.radius[1] <= R(18))
    /\ IsNum(call.b) => (R(8) <= ret.radius[2] /\ ret.radius[2] <= R(18))

\* C5: getRadius(null) = 8, getRadius(s) = 8 for every s <= 25 and
\* getRadius(s) = 18 for every s >= 60.
C5_RadiusClamped ==
  "getRadius" \in ret.did =>
    /\ call.a = Null => ret.radius[1] = R(8)
    /\ (IsNum(call.a) /\ call.a.n <= 25 * Scale) => ret.radius[1] = R(8)
    /\ (IsNum(call.a) /\ call.a.n >= 60 * Scale) => ret.radius[1] = R(18)

\* C6: getRadius is monotonically non-decreasing: for numeric scores a <= b,
\* getRadius(a) <= getRadius(b), over the whole range.
C6_RadiusMonotone ==
  ("getRadius" \in ret.did /\ IsNum(call.a) /\ IsNum(call.b) /\ call.a.n <= call.b.n)
    => ret.radius[1] <= ret.radius[2]

C6_Witness ==
  /\ "getRadius" \in ret.did
  /\ variant = "V11"
  /\ call.a = N(30)
  /\ call.b = N(50)
  /\ ret.radius[1] < ret.radius[2]

\* C7: two scores (number or null) in different tiers never get the same
\* marker colour.
C7_DistinctColors ==
  ({"usiRating", "getColor"} \subseteq ret.did /\ ret.rating[1] # ret.rating[2])
    => ret.color[1] # ret.color[2]

C7_Witness ==
  /\ {"usiRating", "getColor"} \subseteq ret.did
  /\ variant = "V2"
  /\ call.a = N(40)
  /\ call.b = N(35)
  /\ ret.rating = <<"Severe burden", "High burden">>
  /\ ret.color = <<"#e74c3c", "#e67e22">>

\* the presence test of variant v, as its resolver writes it
QualifiesIn(v, val) ==
  IF v \in {"V2", "V2City", "Final"} THEN val # Undefined ELSE Proper(val)

FirstQualifying(v, obj, c) ==
  LET Q == {i \in 1..Len(c) : QualifiesIn(v, Get(obj, c[i]))}
  IN IF Q = {} THEN NoKey ELSE c[CHOOSE i \in Q : \A j \in Q : i <= j]

\* C8: the resolved key is the qualifying candidate of smallest list index,
\* however many later candidates are present too; a record holding "usi" and
\* "urban_stress_index" resolves to "usi" under ["usi", "USI",
\* "urban_stress_index"].
C8_OrderStable ==
  ("pick" \in ret.did /\ ~ret.threw) =>
    LET c == EffCands(variant, call.cands)
    IN /\ ret.key = FirstQualifying(variant, call.obj, c)
       /\ \A i \in 1..Len(c) :
            Proper(Get(call.obj, c[i])) =>
              \E j \in 1..i : c[j] = ret.key
       /\ ( /\ call.cands = <<"usi", "USI", "urban_stress_index">>
            /\ Proper(call.obj["usi"])
            /\ Proper(call.obj["urban_stress_index"]) ) => ret.key = "usi"

C8_Witness ==
  /\ "pick" \in ret.did
  /\ variant = "V2"
  /\ call.cands = <<"usi", "USI", "urban_stress_index">>
  /\ call.obj["usi"] = N(40)
  /\ call.obj["USI"] = Undefined
  /\ call.obj["urban_stress_index"] = N(40)
  /\ ret.key = "usi"

\* C9: the resolver never resolves to a candidate whose value in the record
\* is absent, null or empty text; such a candidate is skipped and the next
\* one in list order is tried.
C9_SkipsEmptyValues ==
  ("pick" \in ret.did /\ ~ret.threw) =>
    /\ ret.key # NoKey => Proper(Get(call.obj, ret.key))
    /\ ret.key = FirstQualifying("V11", call.obj, EffCands(variant, call.cands))

\* ========================================================= the map page
\* A feature is [hasProps, props]: hasProps is FALSE when the feature's
\* `properties` member is null or missing.
FeatKeys ==
  {"usi", "USI", "city", "country", "rental_index", "engels_index",
   "monthly_rent_1br", "monthly_food", "average_monthly_salary"}
EmptyProps == [k \in FeatKeys |-> Undefined]
Props(usi, USI) ==
  [k \in FeatKeys |-> IF k = "usi" THEN usi ELSE IF k = "USI" THEN USI ELSE Undefined]
\* the record base with the members of more added
With(base, more) == [k \in FeatKeys |-> IF k \in DOMAIN more THEN more[k] ELSE base[k]]
Oslo == Str(<<"O", "s", "l", "o">>)
Norway == Str(<<"N", "O">>)
StIves == Str(<<"S", "t", ".", " ", "I", "v", "e", "s">>)
Feature(hasProps, props) == [hasProps |-> hasProps, props |-> props]

FeatureUniverse ==
  { Feature(TRUE, With(Props(N(10), Undefined),
                       "city" :> Oslo @@ "country" :> Norway
                         @@ "rental_index" :> Str(<<"3", "4", ".", "5", "0">>)
                         @@ "engels_index" :> Num((25 * Scale) \div 2)
                         @@ "monthly_rent_1br" :> N(1000) @@ "monthly_food" :> N(500)
                         @@ "average_monthly_salary" :> N(4000))),
    Feature(TRUE, With(Props(N(40), Undefined),
                       "city" :> StIves @@ "monthly_rent_1br" :> N(1000)
                         @@ "average_monthly_salary" :> N(0 - 4000))),
    Feature(TRUE, With(Props(Null, Undefined),
                       "country" :> Norway @@ "monthly_rent_1br" :> N(1000)
                         @@ "monthly_food" :> N(500) @@ "average_monthly_salary" :> N(4000))),
    Feature(TRUE, With(Props(Undefined, N(60)),
                       "monthly_rent_1br" :> N(1000) @@ "average_monthly_salary" :> N(0))),
    Feature(TRUE, With(Props(Str(<<>>), N(40)),
                       "monthly_rent_1br" :> Null @@ "average_monthly_salary" :> N(4000))),
    Feature(TRUE, With(Props(Str(<<"3", "4", ".", "5", "0">>), Undefined),
                       "rental_index" :> Str(<<>>) @@ "monthly_rent_1br" :> N(1000)
                         @@ "average_monthly_salary" :> Null)),
    Feature(TRUE, EmptyProps),
    Feature(FALSE, EmptyProps) }

Docs == {[features |-> fs] : fs \in UNION {[1..n -> FeatureUniverse] : n \in 0..MaxFeatures}}

KEY_CANDIDATES_V2 ==
  [usi |-> <<"usi", "USI", "urban_stress_index">>,
   city |-> <<"city", "name", "place">>,
   country |-> <<"country", "nation">>,
   housingPct |-> <<"housing", "housing_pct", "rental_index">>,
   foodPct |-> <<"food", "food_pct", "engels_index">>,
   rentMonthly |-> <<"monthly_rent_1br", "rent_monthly">>,
   foodMonthly |-> <<"monthly_food", "food_monthly">>,
   incomeMonthly |-> <<"average_monthly_salary", "typicalIncome", "income_monthly">>]

KEY_CANDIDATES_V11 ==
  [usi |-> <<"usi", "USI", "index", "score", "urban_stress_index", "urbanStressIndex">>,
   city |-> <<"city", "City", "name", "NAME", "city_name", "CityName">>,
   country |-> <<"country", "Country", "cntry", "COUNTRY", "iso2", "ISO2", "iso3", "ISO3">>,
   housingPct |-> <<"rental_index", "housing_pct", "housing_share_pct", "rent_pct",
                    "rent_share", "rentShare">>,
   foodPct |-> <<"engels_index", "food_pct", "food_share_pct", "food_share", "foodShare">>,
   rentMonthly |-> <<"monthly_rent_1br", "rent_monthly", "monthly_rent", "rent_1br_monthly">>,
   foodMonthly |-> <<"monthly_food", "food_monthly", "monthly_food_cost">>,
   incomeMonthly |-> <<"average_monthly_salary", "median_monthly_income", "monthly_income",
                       "income_monthly", "income">>]

KEY_CANDIDATES_Final ==
  [usi |-> <<"usi">>,
   city |-> <<"city">>,
   country |-> <<"country">>,
   housingPct |-> <<"rental_index">>,
   foodPct |-> <<"engels_index">>,
   incomeMonthly |-> <<"average_monthly_salary">>]

\* geojson?.features?.[0]?.properties || {}
FirstProps(doc) ==
  IF Len(doc.features) = 0 \/ ~doc.features[1].hasProps
  THEN EmptyProps
  ELSE doc.features[1].props

\* feature.properties || {}
PropsOf(f) == IF f.hasProps THEN f.props ELSE EmptyProps

\* the key set the load handler of variant v builds
ResolveKeys(v, doc) ==
  LET firstProps == FirstProps(doc)
  IN CASE v \in {"V2", "V2City"} ->
            [usiKey |-> pickFirstKey(firstProps, KEY_CANDIDATES_V2.usi),
             cityKey |-> pickFirstKey(firstProps, KEY_CANDIDATES_V2.city),
             countryKey |-> pickFirstKey(firstProps, KEY_CANDIDATES_V2.country),
             housingPctKey |-> pickFirstKey(firstProps, KEY_CANDIDATES_V2.housingPct),
             foodPctKey |-> pickFirstKey(firstProps, KEY_CANDIDATES_V2.foodPct),
             rentMonthlyKey |-> pickFirstKey(firstProps, KEY_CANDIDATES_V2.rentMonthly),
             foodMonthlyKey |-> pickFirstKey(firstProps, KEY_CANDIDATES_V2.foodMonthly),
             incomeMonthlyKey |-> pickFirstKey(firstProps, KEY_CANDIDATES_V2.incomeMonthly)]
       [] v = "V11" ->
            [usiKey |-> pickFirstKey_V11(firstProps, KEY_CANDIDATES_V11.usi),
             cityKey |-> pickFirstKey_V11(firstProps, KEY_CANDIDATES_V11.city),
             countryKey |-> pickFirstKey_V11(firstProps, KEY_CANDIDATES_V11.country),
             housingPctKey |-> pickFirstKey_V11(firstProps, KEY_CANDIDATES_V11.housingPct),
             foodPctKey |-> pickFirstKey_V11(firstProps, KEY_CANDIDATES_V11.foodPct),
             rentMonthlyKey |-> pickFirstKey_V11(firstProps, KEY_CANDIDATES_V11.rentMonthly),
             foodMonthlyKey |-> pickFirstKey_V11(firstProps, KEY_CANDIDATES_V11.foodMonthly),
             incomeMonthlyKey |-> pickFirstKey_V11(firstProps, KEY_CANDIDATES_V11.incomeMonthly)]
       [] v = "Final" ->
            [NoKeys EXCEPT
               !.usiKey = pickFirstKey(firstProps, KEY_CANDIDATES_Final.usi),
               !.cityKey = pickFirstKey(firstProps, KEY_CANDIDATES_Final.city),
               !.countryKey = pickFirstKey(firstProps, KEY_CANDIDATES_Final.country),
               !.housingPctKey = pickFirstKey(firstProps, KEY_CANDIDATES_Final.housingPct),
               !.foodPctKey = pickFirstKey(firstProps, KEY_CANDIDATES_Final.foodPct),
               !.incomeMonthlyKey = pickFirstKey(firstProps, KEY_CANDIDATES_Final.incomeMonthly)]
       [] OTHER ->
            \* V0, V1: const usiKey = pickIndexKey(firstFeature?.properties)
            [NoKeys EXCEPT
               !.usiKey = IF Len(doc.features) = 0 \/ ~doc.features[1].hasProps
                          THEN NoKey
                          ELSE pickIndexKey(doc.features[1].props)]

\* a plausible slip: the score key is resolved again for every record
ScoreOf_PerRecord(ks, f) ==
  LET k == pickIndexKey(PropsOf(f))
  IN IF k # NoKey THEN toNumber(Get(PropsOf(f), k)) ELSE Null

\* keys.usiKey ? toNumber(p[keys.usiKey]) : null
ScoreOf(ks, f) ==
  IF ks.usiKey # NoKey THEN toNumber(Get(PropsOf(f), ks.usiKey)) ELSE Null

\* pointToLayer: the circle marker of one feature
pointToLayer(v, ks, f) ==
  LET u == ScoreOf(ks, f)
  IN [radius |-> getRadiusOf(v, u), color |-> getColorOf(v, u)]

\* ------------------------------------------------------------------ popups
\* The popup of a feature, kept as its view model: the texts the template
\* puts into the markup.
\* the calculator link of a popup: none, the three amounts, or the city
NoLink ==
  [kind |-> "none", income |-> <<>>, housingPct |-> <<>>, foodPct |-> <<>>, city |-> <<>>]
\* calculator.html?income=${income || 0}&housingPct=${housing || 0}&foodPct=${food || 0}
AmountsLink(income, housing, food) ==
  [kind |-> "amounts", income |-> String(Or(income, Num(0))),
   housingPct |-> String(Or(housing, Num(0))), foodPct |-> String(Or(food, Num(0))),
   city |-> <<>>]
\* calculator.html?city=${encodeURIComponent(city)}
CityLink(city) ==
  [kind |-> "city", income |-> <<>>, housingPct |-> <<>>, foodPct |-> <<>>,
   city |-> encodeURIComponent(String(city))]

Popup(title, usiDisplay, rating, housingDisplay, foodDisplay, income) ==
  [title |-> title, usiDisplay |-> usiDisplay, rating |-> rating,
   housingDisplay |-> housingDisplay, foodDisplay |-> foodDisplay, income |-> income,
   link |-> NoLink, hasReport |-> FALSE]

\* keys.<role>Key ? toNumber(p[keys.<role>Key]) : null
NumberAt(p, k) == IF k # NoKey THEN toNumber(Get(p, k)) ELSE Null

\* V2: buildPopup(p, keys)
buildPopup(p, ks) ==
  LET usi == NumberAt(p, ks.usiKey)
      city == Or(Get(p, ks.cityKey), Str(<<"U", "n", "k", "n", "o", "w", "n">>))
      country == IF Truthy(Get(p, ks.countryKey))
                 THEN <<",", " ">> \o String(Get(p, ks.countryKey))
                 ELSE <<>>
      housing == NumberAt(p, ks.housingPctKey)
      food == NumberAt(p, ks.foodPctKey)
      income == NumberAt(p, ks.incomeMonthlyKey)
  IN [Popup(String(city) \o country, keepDecimals(usi), usiRating(usi),
            keepDecimals(housing), keepDecimals(food), fmtIncome(income))
        EXCEPT !.link = AmountsLink(income, housing, food)]

\* V2City: buildPopup(p, keys), the same but for the calculator link
buildPopup_City(p, ks) ==
  [buildPopup(p, ks) EXCEPT
     !.link = CityLink(Or(Get(p, ks.cityKey), Str(<<"U", "n", "k", "n", "o", "w", "n">>)))]

\* Final: buildPopup(p, keys); it reads the module variable activeCitySlugs
buildPopup_Final(p, ks) ==
  LET usi == NumberAt(p, ks.usiKey)
      city == Or(Get(p, ks.cityKey), Str(<<"U", "n", "k", "n", "o", "w", "n">>))
      countryRaw == Or(Get(p, ks.countryKey), Str(<<>>))
      countryLabel == IF Truthy(countryRaw) THEN <<",", " ">> \o String(countryRaw) ELSE <<>>
      housing == NumberAt(p, ks.housingPctKey)
      food == NumberAt(p, ks.foodPctKey)
      income == NumberAt(p, ks.incomeMonthlyKey)
  IN [Popup(String(city) \o countryLabel, keepDecimals(usi), usiRating(usi),
            keepDecimals(housing), keepDecimals(food), fmtIncome(income))
        EXCEPT !.link = AmountsLink(income, housing, food),
               !.hasReport = slugify(city) \in active.slugs]

\* keys.<role>Key ? props[keys.<role>Key] : null
RawAt(props, k) == IF k # NoKey THEN Get(props, k) ELSE Null

\* (amount / income) * 100; the quotients of the feature universe are exact
Ratio100(amount, income) == Num((amount.n * 100 * Scale) \div income.n)

\* V11: one of the two share displays of buildPopup(props, keys): the stored
\* share, else the ratio of the monthly amount to the income
ShareDisplay(props, pctKey, amountKey, income) ==
  LET raw == RawAt(props, pctKey)
      stored == IF raw # Null /\ raw # Undefined /\ raw # Str(<<>>)
                THEN keepDecimals(raw)
                ELSE NA
  IN IF stored = NA /\ income # Null /\ income.n > 0 /\ amountKey # NoKey
     THEN LET amount == toNumber(Get(props, amountKey))
          IN IF amount # Null THEN keepDecimals(Ratio100(amount, income)) ELSE stored
     ELSE stored

\* V11: buildPopup(props, keys)
buildPopup_V11(props, ks) ==
  LET city == Or(RawAt(props, ks.cityKey),
                 Str(<<"U", "n", "k", "n", "o", "w", "n", " ", "c", "i", "t", "y">>))
      country == Or(RawAt(props, ks.countryKey), Str(<<>>))
      usiRaw == RawAt(props, ks.usiKey)
      usiNum == NumberAt(props, ks.usiKey)
      income == NumberAt(props, ks.incomeMonthlyKey)
      titleLine == IF Truthy(country)
                   THEN String(city) \o <<",", " ">> \o String(country)
                   ELSE String(city)
  IN Popup(titleLine, keepDecimals(usiRaw), usiRating(usiNum),
           ShareDisplay(props, ks.housingPctKey, ks.rentMonthlyKey, income),
           ShareDisplay(props, ks.foodPctKey, ks.foodMonthlyKey, income),
           fmtIncome(income))

\* a ?? b ?? c ?? d over the members named by names
RECURSIVE Coalesce(_, _)
Coalesce(props, names) ==
  IF names = <<>> THEN Undefined
  ELSE IF Len(names) = 1 \/ Get(props, Head(names)) \notin {Undefined, Null}
       THEN Get(props, Head(names))
       ELSE Coalesce(props, Tail(names))

\* a || b || c || d || last over the members named by names
RECURSIVE FirstTruthy(_, _, _)
FirstTruthy(props, names, last) ==
  IF names = <<>> THEN last
  ELSE IF Truthy(Get(props, Head(names))) THEN Get(props, Head(names))
       ELSE FirstTruthy(props, Tail(names), last)

\* V0, V1: a share line of formatPopup, empty when the share is not numeric
ShareLine(raw) ==
  LET x == toNumber(raw)
      pct == IF x # Null /\ 10 * x.n <= 12 * Scale THEN Num(x.n * 100) ELSE x
  IN IF pct = Null THEN <<>> ELSE toFixed(pct.n, 0) \o <<"%">>

\* V0, V1: formatPopup(props, usiKey, usiValue); it shows no income
formatPopup(v, props, usiKey, usiValue) ==
  LET city == FirstTruthy(props, <<"city", "City", "name", "NAME">>,
                          Str(<<"U", "n", "k", "n", "o", "w", "n", " ", "c", "i", "t", "y">>))
      country == FirstTruthy(props, <<"country", "Country", "cntry", "COUNTRY">>, Str(<<>>))
      usiText == IF usiValue = Null THEN NA ELSE toFixed(usiValue.n, 1)
      rentRaw == Coalesce(props, <<"rent_share", "rentShare", "rent_pct", "rentPercent">>)
      foodRaw == Coalesce(props, <<"food_share", "foodShare", "food_pct", "foodPercent">>)
  IN Popup(String(city) \o (IF Truthy(country) THEN <<",", " ">> \o String(country) ELSE <<>>),
           usiText, usiRatingOf(v, usiValue), ShareLine(rentRaw), ShareLine(foodRaw), <<>>)

\* onEachFeature: the popup bound to the marker of one feature
onEachFeature(v, ks, f) ==
  CASE v = "V2" -> buildPopup(PropsOf(f), ks)
    [] v = "V2City" -> buildPopup_City(PropsOf(f), ks)
    [] v = "V11" -> buildPopup_V11(PropsOf(f), ks)
    [] v = "Final" -> buildPopup_Final(PropsOf(f), ks)
    [] OTHER -> formatPopup(v, PropsOf(f), ks.usiKey, ScoreOf(ks, f))

\* the initial counts object of the tally
ZeroCounts(v) ==
  IF v = "V0"
  THEN [l \in {"Comfortable", "Stretched", "High burden", "Severe burden",
               "Unaffordable", "Unknown"} |-> 0]
  ELSE [l \in {"Comfortable", "Stretched", "High burden", "Severe burden",
               "Unaffordable", "Extreme", "Unknown"} |-> 0]

\* a plausible slip: the bucket is set to one instead of incremented
Bump_Overwrite(c, label) ==
  [l \in DOMAIN c \cup {label} |-> IF l = label THEN 1 ELSE c[l]]

\* counts[label] = (counts[label] ?? 0) + 1
Bump(c, label) ==
  [l \in DOMAIN c \cup {label} |-> IF l = label
                                   THEN (IF l \in DOMAIN c THEN c[l] ELSE 0) + 1
                                   ELSE c[l]]

\* the tally loop over the features, in order
RECURSIVE Tally(_, _, _, _)
Tally(v, ks, fs, c) ==
  IF fs = <<>> THEN c
  ELSE Tally(v, ks, Tail(fs), Bump(c, usiRatingOf(v, ScoreOf(ks, Head(fs)))))

\* "Final" and "Clean" run no tally
HasTally(v) == v \in {"V2", "V2City", "V11", "V0", "V1"}

\* what the load handler of variant v throws on doc ("" when it completes):
\* "Clean" reads geojson.features[0].properties without guards and then
\* calls pickKey, which the script never defines
HandlerThrows(v, doc) ==
  IF v = "Clean"
  THEN IF Len(doc.features) = 0 THEN "TypeError" ELSE "ReferenceError"
  ELSE ""

\* the bodies the active-reports file may have: a list of report paths, or
\* JSON that is no list
ListBody(paths) == [kind |-> "list", paths |-> paths]
ActiveBodies ==
  { ListBody(<<>>),
    ListBody(<< <<"c", "i", "t", "i", "e", "s", "/", "n", "o", "/", "o", "s", "l", "o", ".",
                  "h", "t", "m", "l">> >>),
    ListBody(<< <<"s", "t", "-", "i", "v", "e", "s", ".", "h", "t", "m", "l">>,
                <<"x", "/", "u", "n", "k", "n", "o", "w", "n", ".", "h", "t", "m", "l">> >>),
    [kind |-> "object", paths |-> <<>>] }

\* only "Final" loads the active-reports list
HasActiveGate(v) == v = "Final"

\* a plausible slip: the collection is rendered as soon as it is parsed
BootReady_CollectionOnly == TRUE

\* Promise.all([loadActiveCities(), fetch(GEOJSON_FILE).then(r => r.json())]):
\* the load handler runs once both have resolved
BootReady == HasActiveGate(variant) => active.pc = "settled"

Init ==
  /\ variant \in Variants
  /\ geojson \in Docs
  /\ IF HasActiveGate(variant)
     THEN \E body \in ActiveBodies :
            active = [pc |-> "fetching", body |-> body, slugs |-> {}, failed |-> FALSE]
     ELSE active = NoActive
  /\ pc = "fetching"
  /\ keys = NoKeys
  /\ markers = <<>>
  /\ popups = <<>>
  /\ counts = NoCounts
  /\ alerts = 0
  /\ thrown = ""
  /\ call = NoCall
  /\ ret = NoRet
  /\ calc = NoCalc

\* fetch(GEOJSON_FILE) settles: a response arrives, or the request fails
FetchSettle ==
  /\ pc = "fetching"
  /\ \E outcome \in {"response_ok", "response_bad", "network_error"} :
       IF outcome = "network_error"
       THEN pc' = "rejected" /\ thrown' = "NetworkError"
       ELSE pc' = outcome /\ thrown' = thrown
  /\ UNCHANGED <<variant, call, ret, geojson, keys, markers, popups, counts, alerts, active,
                  calc>>

\* a plausible slip: the status of the response is not looked at
ResponseHandler_NoOkCheck ==
  /\ pc \in {"response_ok", "response_bad"}
  /\ \E parses \in BOOLEAN :
       IF parses
       THEN pc' = "parsed" /\ thrown' = thrown
       ELSE pc' = "rejected" /\ thrown' = "SyntaxError"
  /\ UNCHANGED <<variant, call, ret, geojson, keys, markers, popups, counts, alerts, active,
                  calc>>

\* the first handler: the res.ok check (not in "Final") and res.json().
\* The body of a good response is the collection or does not parse; the body
\* of an error response is taken not to be JSON, so that "Final", which does
\* not look at res.ok, fails in res.json().
ResponseHandler ==
  /\ pc \in {"response_ok", "response_bad"}
  /\ IF pc = "response_bad" /\ variant # "Final"
     THEN pc' = "rejected" /\ thrown' = "Error"
     ELSE \E parses \in BOOLEAN :
            /\ pc = "response_bad" => ~parses
            /\ IF parses
               THEN pc' = "parsed" /\ thrown' = thrown
               ELSE pc' = "rejected" /\ thrown' = "SyntaxError"
  /\ UNCHANGED <<variant, call, ret, geojson, keys, markers, popups, counts, alerts, active,
                  calc>>

\* the load handler: key detection, one marker and one popup per feature
\* (pointToLayer, then onEachFeature), the tally
LoadHandler ==
  /\ pc = "parsed"
  /\ BootReady
  /\ IF HandlerThrows(variant, geojson) # ""
     THEN /\ pc' = "rejected"
          /\ thrown' = HandlerThrows(variant, geojson)
          /\ UNCHANGED <<keys, markers, popups, counts>>
     ELSE LET ks == ResolveKeys(variant, geojson)
          IN /\ keys' = ks
             /\ markers' = [i \in 1..Len(geojson.features) |->
                              pointToLayer(variant, ks, geojson.features[i])]
             /\ popups' = [i \in 1..Len(geojson.features) |->
                              onEachFeature(variant, ks, geojson.features[i])]
             /\ counts' = IF HasTally(variant)
                          THEN Tally(variant, ks, geojson.features, ZeroCounts(variant))
                          ELSE counts
             /\ pc' = "rendered"
             /\ thrown' = thrown
  /\ UNCHANGED <<variant, call, ret, geojson, alerts, active, calc>>

\* .catch: console.error and one alert
Catch ==
  /\ pc = "rejected"
  /\ alerts' = alerts + 1
  /\ pc' = "failed"
  /\ UNCHANGED <<variant, call, ret, geojson, keys, markers, popups, counts, thrown, active,
                  calc>>

\* loadActiveCities: fetch(ACTIVE_REPORTS_FILE) settles
ActiveFetchSettle ==
  /\ active.pc = "fetching"
  /\ \E outcome \in {"response", "rejected"} : active' = [active EXCEPT !.pc = outcome]
  /\ UNCHANGED <<variant, call, ret, geojson, pc, keys, markers, popups, counts, alerts,
                  thrown, calc>>

\* loadActiveCities: res => res.json(); the body parses or it does not
ActiveJson ==
  /\ active.pc = "response"
  /\ \E parses \in BOOLEAN :
       active' = [active EXCEPT !.pc = IF parses THEN "parsed" ELSE "rejected"]
  /\ UNCHANGED <<variant, call, ret, geojson, pc, keys, markers, popups, counts, alerts,
                  thrown, calc>>

\* loadActiveCities: the handler of the list; list.map throws when the body
\* is no list
ActiveList ==
  /\ active.pc = "parsed"
  /\ active' = IF active.body.kind = "list"
               THEN [active EXCEPT
                       !.slugs = {extractSlugFromPath(active.body.paths[i]) :
                                    i \in 1..Len(active.body.paths)},
                       !.pc = "settled"]
               ELSE [active EXCEPT !.pc = "rejected"]
  /\ UNCHANGED <<variant, call, ret, geojson, pc, keys, markers, popups, counts, alerts,
                  thrown, calc>>

\* a plausible slip: the failure of the list is reported like a failure of
\* the collection
ActiveCatch_Alerts ==
  /\ active.pc = "rejected"
  /\ active' = [active EXCEPT !.slugs = {}, !.pc = "settled", !.failed = TRUE]
  /\ alerts' = alerts + 1
  /\ UNCHANGED <<variant, call, ret, geojson, pc, keys, markers, popups, counts, thrown, calc>>

\* loadActiveCities: .catch: console.warn, activeCitySlugs = new Set()
ActiveCatch ==
  /\ active.pc = "rejected"
  /\ active' = [active EXCEPT !.slugs = {}, !.pc = "settled", !.failed = TRUE]
  /\ UNCHANGED <<variant, call, ret, geojson, pc, keys, markers, popups, counts, alerts,
                  thrown, calc>>

Next ==
  \/ FetchSettle
  \/ ResponseHandler
  \/ LoadHandler
  \/ Catch
  \/ ActiveFetchSettle
  \/ ActiveJson
  \/ ActiveList
  \/ ActiveCatch

Spec == Init /\ [][Next]_vars

\* ============================================================ claims, Spec
CountOf(label) == IF label \in DOMAIN counts THEN counts[label] ELSE 0
Tallied == pc = "rendered" /\ counts # NoCounts
StoredScores == [i \in 1..Len(geojson.features) |-> Get(PropsOf(geojson.features[i]), "usi")]
NumericTiers ==
  {"Comfortable", "Stretched", "High burden", "Severe burden", "Unaffordable", "Extreme"}

\* C3: the tally counts every record by the tier of its score and counts a
\* record whose score value is null under Unknown and under no numeric tier:
\* the scores [10, 40, null] give Comfortable 1, Severe burden 1, Unknown 1
\* and 0 for every other tier.
C3_TallyNullIsUnknown ==
  (Tallied /\ keys.usiKey = "usi") =>
    /\ CountOf("Unknown") >=
         Cardinality({i \in 1..Len(geojson.features) : StoredScores[i] = Null})
    /\ StoredScores = <<N(10), N(40), Null>> =>
         /\ CountOf("Comfortable") = 1
         /\ CountOf("Severe burden") = 1
         /\ CountOf("Unknown") = 1
         /\ \A l \in NumericTiers \ {"Comfortable", "Severe burden"} : CountOf(l) = 0

EmptyFirstRecord == Len(geojson.features) = 0 \/ ~geojson.features[1].hasProps
HandlerRan == pc = "rendered" \/ thrown \in {"TypeError", "ReferenceError"}

\* C10: when the loaded collection has no features, or its first feature has
\* no properties, key resolution raises no error and every role resolves to
\* unresolved (null).
C10_EmptyFirstRecordTolerated ==
  (HandlerRan /\ EmptyFirstRecord) =>
    /\ thrown = ""
    /\ keys = NoKeys

\* ================================================ display claims, SpecPure
Absent(x) == x = Undefined \/ x = Null \/ x = Str(<<>>)
KeptDecimals == call.fn = "raw" /\ "keepDecimals" \in ret.did
EndsInFractionZero(s) == (\E i \in 1..Len(s) : s[i] = ".") /\ s[Len(s)] \in {"0", "."}

\* C13: keepDecimals returns "N/A" exactly when the raw value is absent, null
\* or the empty text; otherwise it returns the value's own textual form: a
\* text comes back character for character, and a number comes back as the
\* decimal text of that very number, with no digits rounded away and none
\* padded on.
C13_KeepDecimalsExact ==
  KeptDecimals =>
    /\ (ret.text = NA) <=> Absent(call.x)
    /\ call.x.t = "string" /\ ~Absent(call.x) => ret.text = call.x.s
    /\ call.x.t = "number" =>
         /\ StringToNumber(ret.text) = call.x
         /\ ~EndsInFractionZero(ret.text)

C13_Witness ==
  /\ KeptDecimals
  /\ call.x = Str(<<"3", "4", ".", "5", "0">>)
  /\ ret.text = <<"3", "4", ".", "5", "0">>

\* ====================================================== popup claims, Spec
Rendered == pc = "rendered"
Features == geojson.features
\* the score of record i read through the key resolved for the collection
KeyedScore(i) ==
  IF keys.usiKey = NoKey THEN Null ELSE toNumber(Get(PropsOf(Features[i]), keys.usiKey))

\* C11: the key set is resolved once per collection, from the first feature
\* and before any feature is projected, and is never reassigned; the marker,
\* the popup and the tally entry of every feature read the score through
\* that one key, also for a feature that stores its score under another
\* candidate name.
C11_OneKeyPerCollection ==
  /\ [](Rendered =>
          /\ keys.usiKey # NoKey => Get(FirstProps(geojson), keys.usiKey) # Undefined
          /\ \A i \in 1..Len(Features) :
               /\ markers[i].color = getColorOf(variant, KeyedScore(i))
               /\ markers[i].radius = getRadiusOf(variant, KeyedScore(i))
               /\ popups[i].rating = usiRatingOf(variant, KeyedScore(i))
          /\ counts # NoCounts =>
               \A l \in DOMAIN counts :
                 counts[l] = Cardinality({i \in 1..Len(Features) :
                                            usiRatingOf(variant, KeyedScore(i)) = l}))
  /\ [][keys' # keys => (pc = "parsed" /\ pc' = "rendered" /\ markers = <<>> /\ popups = <<>>)]_vars

C11_Witness ==
  /\ Rendered
  /\ keys.usiKey = "usi"
  /\ \E i \in 1..Len(Features) :
       /\ Get(PropsOf(Features[i]), "usi") = Undefined
       /\ Get(PropsOf(Features[i]), "USI") = N(60)
       /\ popups[i].rating = "Unknown"
       /\ counts # NoCounts => counts["Unknown"] >= 1

\* the scripts that resolve a key for every role of the popup
KeyedVariants == {"V2", "V2City", "V11", "Final"}
PropsAt(i) == PropsOf(Features[i])
IncomeAt(i) == NumberAt(PropsAt(i), keys.incomeMonthlyKey)
AmountAt(i, amountKey) == toNumber(Get(PropsAt(i), amountKey))
\* the ratio of the monthly amount to the income can be computed for record i
FallbackApplies(i, amountKey) ==
  /\ variant = "V11"
  /\ amountKey # NoKey
  /\ IncomeAt(i) # Null
  /\ IncomeAt(i).n > 0
  /\ AmountAt(i, amountKey) # Null
FallbackText(i, amountKey) == String(Ratio100(AmountAt(i, amountKey), IncomeAt(i)))

\* the parts of C12 that do not depend on how a share display is filled:
\* the handler completes with one marker and one popup per record; with the
\* score key unresolved every record has a null score, the tier Unknown and
\* the score display "N/A"; with the income key unresolved the income display
\* is "N/A"
UnresolvedScoreAndIncome ==
  /\ thrown = ""
  /\ Len(markers) = Len(Features)
  /\ Len(popups) = Len(Features)
  /\ HasTally(variant) => counts # NoCounts
  /\ keys.usiKey = NoKey =>
       /\ \A i \in 1..Len(Features) :
            /\ KeyedScore(i) = Null
            /\ popups[i].rating = "Unknown"
            /\ popups[i].usiDisplay = NA
            /\ markers[i] = [radius |-> getRadiusOf(variant, Null),
                             color |-> getColorOf(variant, Null)]
       /\ HasTally(variant) => counts["Unknown"] = Len(Features)
  /\ (variant \in KeyedVariants /\ keys.incomeMonthlyKey = NoKey) =>
       \A i \in 1..Len(Features) : popups[i].income = NA

\* C12 as stated: an unresolved role never raises an error downstream; with
\* the housing, food or income key unresolved that display is "N/A".
C12_UnresolvedShareIsNA ==
  Rendered =>
    /\ UnresolvedScoreAndIncome
    /\ variant \in KeyedVariants =>
         \A i \in 1..Len(Features) :
           /\ keys.housingPctKey = NoKey => popups[i].housingDisplay = NA
           /\ keys.foodPctKey = NoKey => popups[i].foodDisplay = NA

\* C12, amended: an unresolved role never raises an error downstream; with
\* the score key unresolved the score is null, the tier Unknown and the score
\* display "N/A"; with the income key unresolved the income display is "N/A";
\* with the housing (food) share key unresolved the display is "N/A" unless
\* the V1.1 popup can compute the ratio of the resolved monthly rent (food)
\* amount to a positive income, which it then shows.
C12_UnresolvedRoleIsNoValue ==
  Rendered =>
    /\ UnresolvedScoreAndIncome
    /\ variant \in KeyedVariants =>
         \A i \in 1..Len(Features) :
           /\ keys.housingPctKey = NoKey =>
                popups[i].housingDisplay =
                  IF FallbackApplies(i, keys.rentMonthlyKey)
                  THEN FallbackText(i, keys.rentMonthlyKey)
                  ELSE NA
           /\ keys.foodPctKey = NoKey =>
                popups[i].foodDisplay =
                  IF FallbackApplies(i, keys.foodMonthlyKey)
                  THEN FallbackText(i, keys.foodMonthlyKey)
                  ELSE NA

C12_Witness ==
  /\ Rendered
  /\ variant = "V11"
  /\ keys.usiKey = NoKey
  /\ keys.housingPctKey = NoKey
  /\ keys.foodPctKey = NoKey
  /\ Len(Features) >= 2
  /\ popups[1].usiDisplay = NA
  /\ popups[1].housingDisplay = <<"2", "5">>
  /\ popups[1].foodDisplay = <<"1", "2", ".", "5">>
  /\ popups[2].housingDisplay = NA

RawScoreAt(i) == Get(PropsAt(i), keys.usiKey)

\* C14: the score text of a popup is keepDecimals of the raw stored score,
\* not of its numeric conversion, so a score stored as the text "34.50" is
\* shown as "34.50"; the tier comes from toNumber of the same raw value.
C14_ScoreTextIsRawText ==
  (Rendered /\ keys.usiKey # NoKey) =>
    \A i \in 1..Len(Features) :
      /\ popups[i].usiDisplay = keepDecimals(RawScoreAt(i))
      /\ RawScoreAt(i).t = "string" /\ RawScoreAt(i).s # <<>> =>
           popups[i].usiDisplay = RawScoreAt(i).s
      /\ popups[i].rating = usiRatingOf(variant, toNumber(RawScoreAt(i)))

\* a stored value that is present, non-empty and converts to a finite number
Numeric(v) == Proper(v) /\ toNumber(v) # Null
\* what C15 says a share display is, from the stored share and the amount
ExpectedShare(i, pctKey, amountKey) ==
  LET stored == RawAt(PropsAt(i), pctKey)
      income == RawAt(PropsAt(i), keys.incomeMonthlyKey)
      amount == RawAt(PropsAt(i), amountKey)
  IN IF Proper(stored) THEN keepDecimals(stored)
     ELSE IF Numeric(income) /\ toNumber(income).n > 0 /\ Numeric(amount)
          THEN String(Ratio100(toNumber(amount), toNumber(income)))
          ELSE NA

\* C15: a housing (food) display is the stored percentage field when that is
\* present and non-empty; else, when the income is a number above zero and
\* the monthly rent (food) amount is resolvable and numeric, the unrounded
\* (amount / income) * 100; else "N/A".  The ratio is never computed with a
\* null, zero or negative income.
C15_ShareDisplayWithFallback ==
  (Rendered /\ variant \in KeyedVariants) =>
    \A i \in 1..Len(Features) :
      /\ popups[i].housingDisplay =
           ExpectedShare(i, keys.housingPctKey, keys.rentMonthlyKey)
      /\ popups[i].foodDisplay =
           ExpectedShare(i, keys.foodPctKey, keys.foodMonthlyKey)

UnknownCity == <<"U", "n", "k", "n", "o", "w", "n", " ", "c", "i", "t", "y">>
\* what C16 says the title of record i is
ExpectedTitle(i) ==
  LET place == RawAt(PropsAt(i), keys.cityKey)
      region == RawAt(PropsAt(i), keys.countryKey)
      name == IF Proper(place) THEN String(place) ELSE UnknownCity
  IN IF Proper(region) THEN name \o <<",", " ">> \o String(region) ELSE name

\* C16: the popup title is the place-name value when that key is resolved
\* and the value present, else the literal "Unknown city"; with the region
\* key resolved and its value present the title is "{place}, {region}",
\* else the place alone.
C16_PopupTitle ==
  (Rendered /\ variant \in KeyedVariants) =>
    \A i \in 1..Len(Features) : popups[i].title = ExpectedTitle(i)

\* ==================================================== claims, SpecCalc
CalcOpen == calc.version \in CalcVersions
\* the amount a field stands for: 0 when the element is missing or its text
\* is empty or does not start with a number
FieldValue(id) ==
  IF id \notin calc.present \/ calc.fields[id] = <<>> THEN 0
  ELSE LET Value(x) == IF x.t = "number" THEN x.n ELSE 0
       IN Value(parseFloat(Str(calc.fields[id])))
ExpectedTotal ==
  FieldValue("housing") + FieldValue("food") + FieldValue("utilities")
    + FieldValue("public-transport") + FieldValue("car") + FieldValue("clothing")
    + FieldValue("discretionary")
ExpectedRemaining == FieldValue("income") - ExpectedTotal
PowersForm ==
  Form(<<"3", "0", "0", "0">>, <<"1">>, <<"2">>, <<"4">>, <<"8">>, <<"1", "6">>,
       <<"3", "2">>, <<"6", "4">>)

\* C17: calculate sums the seven expense fields (housing, food, utilities,
\* public transport, car, clothing, discretionary), counts a field that is
\* missing, empty or unparseable as 0, and sets remaining = income - total;
\* it never fails on such input: every run of calculate completes.
C17_CalculateSumsSevenFields ==
  CalcOpen =>
    /\ calc.last = "click" => calc.calculated
    /\ (calc.last = "input" /\ "input" \in calc.wired) => calc.calculated
    /\ calc.calculated =>
         /\ calc.total = ExpectedTotal
         /\ calc.remaining = ExpectedRemaining
         /\ (calc.fields = PowersForm /\ calc.present = Elements) =>
              calc.total = 127 * Scale /\ calc.remaining = 2873 * Scale
         /\ (calc.fields = PowersForm /\ calc.present = Elements \ {"car"}) =>
              calc.total = 111 * Scale

C17_Witness ==
  /\ CalcOpen
  /\ calc.calculated
  /\ "car" \notin calc.present
  /\ calc.fields["car"] = <<"-", "5">>
  /\ calc.fields["food"] = <<"a", "b", "c">>
  /\ calc.fields["utilities"] = <<>>
  /\ calc.total = 21 * Scale
  /\ calc.remaining = 3979 * Scale

\* the signed two-decimal text of an amount, as the version writes amounts
SignedText(r) ==
  (IF r < 0 THEN <<"-">> ELSE <<>>)
    \o (IF calc.version = "CalcD" THEN fmt2(Abs(r)) ELSE toFixed(Abs(r), 2))
DrawsChart == calc.version \in {"CalcA", "CalcD"} /\ "pieChart" \in calc.present

\* C18: a negative remaining is never clamped in the text: the figure written
\* to the remaining cell is the signed value income - total, while the
\* Remaining slice passed to the chart is max(remaining, 0); with income 2000
\* and expenses summing to 2500 the text shows -500 and the slice is 0.
C18_NegativeRemainingShown ==
  (CalcOpen /\ calc.calculated) =>
    /\ "remaining-cell" \in calc.present => calc.cell = SignedText(ExpectedRemaining)
    /\ calc.chart # <<>> => calc.chart[8] = Max(ExpectedRemaining, 0)
    /\ (FieldValue("income") = 2000 * Scale /\ ExpectedTotal = 2500 * Scale) =>
         /\ "remaining-cell" \in calc.present =>
              calc.cell = <<"-", "5", "0", "0", ".", "0", "0">>
         /\ DrawsChart => calc.chart # <<>> /\ calc.chart[8] = 0

C18_Witness ==
  /\ CalcOpen
  /\ calc.calculated
  /\ calc.remaining = 0 - 500 * Scale
  /\ calc.cell = <<"-", "5", "0", "0", ".", "0", "0">>
  /\ calc.chart # <<>>
  /\ calc.chart[1] = 2500 * Scale
  /\ calc.chart[8] = 0

\* the number a query parameter stands for: 0 when absent or unparseable
QueryValue(x) ==
  LET Value(n) == IF n.t = "number" THEN n.n ELSE 0
  IN Value(parseFloat(x))
\* the page has run a loadFromURL that had an income to expand, all three
\* target fields exist, and nobody has edited a field since
LoadedFromURL ==
  /\ CalcOpen
  /\ calc.version # "CalcC"
  /\ calc.loaded
  /\ calc.edits = 0
  /\ QueryValue(calc.query.income) # 0
  /\ {"income", "housing", "food"} \subseteq calc.present
\* income * pct / 100 rounded to the nearest whole unit, in 1/Scale units
WholeShare(pct) ==
  RoundHalfAway(QueryValue(calc.query.income) * QueryValue(pct), 100 * Scale * Scale) * Scale

\* C19: loadFromURL fills the housing and food fields with
\* income * housingPct / 100 and income * foodPct / 100, each rounded to the
\* nearest whole unit, and the income field with the income.
C19_LoadRoundsToWholeUnits ==
  LoadedFromURL =>
    /\ FieldValue("housing") = WholeShare(calc.query.housingPct)
    /\ FieldValue("food") = WholeShare(calc.query.foodPct)
    /\ FieldValue("income") = QueryValue(calc.query.income)

OtherExpensesZero ==
  \A id \in {"utilities", "public-transport", "car", "clothing", "discretionary"} :
    FieldValue(id) = 0
ExampleQuery == Query(Str(<<"5", "0", "0", "0">>), Str(<<"3", "0">>), Str(<<"1", "5">>))

\* C20: the round trip from shares to breakdown: after loadFromURL with
\* income I and shares h, f, calculate with every other expense field 0
\* yields total = housing + food and remaining = I - total, housing and food
\* being the values loadFromURL wrote; for I = 5000, h = 30, f = 15 this is
\* housing 1500, food 750, total 2250, remaining 2750.
C20_RoundTrip ==
  (LoadedFromURL /\ calc.calculated /\ OtherExpensesZero) =>
    /\ calc.total = FieldValue("housing") + FieldValue("food")
    /\ calc.remaining = QueryValue(calc.query.income) - calc.total
    /\ calc.query = ExampleQuery =>
         /\ FieldValue("housing") = 1500 * Scale
         /\ FieldValue("food") = 750 * Scale
         /\ calc.total = 2250 * Scale
         /\ calc.remaining = 2750 * Scale


\* a query parameter that is absent or is no number
Unparseable(x) == x = NoParam \/ x = Str(<<"a", "b", "c">>)
NoIncome(x) == Unparseable(x) \/ x = Str(<<"0">>)
LoadStep == CalcOpen /\ calc.version # "CalcC" /\ ~calc.loaded /\ calc'.loaded
AmountAfterLoad(id) == FieldValue(id)'

\* C21: in loadFromURL each of the query parameters income, housingPct and
\* foodPct counts as 0 when it is absent or unparseable, and when the income
\* is 0 no form field is written: the income, housing and food fields keep
\* their prior values.
C21_LoadDefaultsToZero ==
  [][LoadStep =>
       /\ NoIncome(calc.query.income) => calc'.fields = calc.fields
       /\ (~NoIncome(calc.query.income) /\ {"income", "housing", "food"} \subseteq calc.present) =>
            /\ calc'.fields # calc.fields
            /\ Unparseable(calc.query.housingPct) => AmountAfterLoad("housing") = 0
            /\ Unparseable(calc.query.foodPct) => AmountAfterLoad("food") = 0]_vars

C21_Witness ==
  /\ CalcOpen
  /\ calc.version \in {"CalcA", "CalcD"}
  /\ calc.loaded
  /\ calc.edits = 0
  /\ calc.last = "DOMContentLoaded"
  /\ Unparseable(calc.query.income)
  /\ calc.query.housingPct = Str(<<"3", "0">>)
  /\ calc.fields["income"] = <<"2", "0", "0", "0">>
  /\ calc.fields["housing"] = <<"2", "5", "0", "0">>


\* the remaining cell shows income minus the seven expense fields as they stand
DisplayCurrent == calc.cell = SignedText(ExpectedRemaining)
CellOpen == CalcOpen /\ calc.loaded /\ "remaining-cell" \in calc.present

\* C22 as stated: once the page has loaded, after every click on the calculate
\* button and after every input event on a numeric field, in every script
\* generation, the displayed remaining figure equals income minus the sum of
\* the seven expense fields as they currently stand.
C22_LiveRecompute ==
  (CellOpen /\ calc.last \in {"click", "input"}) => DisplayCurrent

\* C22, amended: the displayed remaining figure equals income minus the sum
\* of the seven expense fields as they stand after every run of the click
\* listener in every script generation, and in the last generation (the one
\* with wireEvents) at every moment from the page load on, hence after every
\* input event; the earlier generations do not recompute on an edit.
C22_RecomputeOnClickAndWiredEdits ==
  CellOpen =>
    /\ calc.last = "click" => DisplayCurrent
    /\ calc.version = "CalcD" => DisplayCurrent /\ calc.calculated

C22_Witness ==
  /\ CellOpen
  /\ calc.version = "CalcD"
  /\ calc.last = "input"
  /\ calc.edits = MaxEdits
  /\ calc.fields["car"] = <<"2", "5", "0", "0">>
  /\ calc.fields["income"] = <<"2", "0", "0", "0">>
  /\ calc.remaining < 0
  /\ DisplayCurrent


\* ------------------------------------------------------ tally claims, Spec
\* the tiers the script of the variant knows, Unknown included
KnownTiers ==
  IF variant = "V0" THEN (NumericTiers \ {"Extreme"}) \cup {"Unknown"}
  ELSE NumericTiers \cup {"Unknown"}
TierAt(i) == usiRatingOf(variant, ScoreOf(keys, geojson.features[i]))
CountsTotal ==
  CountOf("Comfortable") + CountOf("Stretched") + CountOf("High burden")
    + CountOf("Severe burden") + CountOf("Unaffordable") + CountOf("Extreme")
    + CountOf("Unknown")

\* C23: the tally starts every known tier, Unknown included, at zero and then
\* increments exactly one bucket per record: the counts sum to the number of
\* records, each bucket holds the number of records of its tier, no bucket
\* outside the initialized tier set exists, and an empty collection yields
\* all-zero counts without error.
C23_TallyOneBucketPerRecord ==
  (pc = "rendered" /\ HasTally(variant)) =>
    /\ Tallied
    /\ DOMAIN counts = KnownTiers
    /\ CountsTotal = Len(geojson.features)
    /\ \A l \in KnownTiers :
         counts[l] = Cardinality({i \in 1..Len(geojson.features) : TierAt(i) = l})
    /\ Len(geojson.features) = 0 => (\A l \in KnownTiers : counts[l] = 0) /\ thrown = ""

C23_Witness ==
  /\ Tallied
  /\ variant \in {"V2", "V0"}
  /\ Len(geojson.features) = 3
  /\ CountOf("Unknown") = 2
  /\ CountOf("Unaffordable") = 1


\* ------------------------------------------------------ failure claims, Spec
\* the collection could not be loaded: the request failed, the response was
\* not OK, or its body did not parse
FetchErrors == {"NetworkError", "Error", "SyntaxError"}
FetchFailed == thrown \in FetchErrors
NothingRendered ==
  markers = <<>> /\ popups = <<>> /\ keys = NoKeys /\ counts = NoCounts
ChecksStatus == variant # "Final"

C25_AlertOnlyOnFetchFailure ==
  /\ (pc \in {"rejected", "failed"} \/ alerts > 0) => FetchFailed
  /\ pc = "rendered" =>
       /\ thrown = ""
       /\ alerts = 0
       /\ Len(markers) = Len(geojson.features)
       /\ Len(popups) = Len(geojson.features)
       /\ HasTally(variant) => Tallied


\* the amount loadFromURL computes for a share field
ShareOfQuery(pct) ==
  (QueryValue(calc.query.income) * QueryValue(pct)) \div (100 * Scale)
\* a field holds an amount up to the rounding of the version
Holds(id, amount) == 2 * Abs(FieldValue(id) - amount) <= Scale
\* loadFromURL has run with an income to expand and nobody has edited a field
ExpandedFromURL ==
  /\ CalcOpen
  /\ calc.version # "CalcC"
  /\ calc.loaded
  /\ calc.edits = 0
  /\ QueryValue(calc.query.income) # 0

\* C26: a missing page element is a no-op for the operation that targets it
\* and does not abort the others: in calculate, when the remaining cell, the
\* pie canvas, the result title or an input field is absent, the other
\* outputs are still updated and an absent input contributes 0; in
\* loadFromURL an absent income, housing or food field does not stop the
\* other fields from being filled.
C26_MissingElementIsNoOp ==
  /\ (CalcOpen /\ calc.calculated) =>
       /\ calc.total = ExpectedTotal
       /\ calc.remaining = ExpectedRemaining
       /\ "remaining-cell" \in calc.present => calc.cell = SignedText(ExpectedRemaining)
       /\ (DrawsChart /\ ExpectedTotal + Max(ExpectedRemaining, 0) > 0) => calc.chart # <<>>
       /\ (calc.version = "CalcD" /\ "result-title" \in calc.present) => calc.titled
  /\ ExpandedFromURL =>
       /\ calc.error = ""
       /\ "income" \in calc.present => Holds("income", QueryValue(calc.query.income))
       /\ "housing" \in calc.present => Holds("housing", ShareOfQuery(calc.query.housingPct))
       /\ "food" \in calc.present => Holds("food", ShareOfQuery(calc.query.foodPct))


\* ------------------------------------------------------- link claims, Spec
\* the scripts whose popup has a calculator link
LinkVariants == {"V2", "V2City", "Final"}
ShareAt(i, k) == NumberAt(PropsAt(i), k)

\* C27: the calculator link in a feature's popup carries the query parameters
\* income, housingPct and foodPct, and their values are exactly the feature's
\* numeric income, housing share and food share as shown in the same popup.
C27_CalculatorLinkCarriesAmounts ==
  (Rendered /\ variant \in LinkVariants) =>
    \A i \in 1..Len(Features) :
      /\ popups[i].link.kind = "amounts"
      /\ IncomeAt(i) # Null => popups[i].link.income = String(IncomeAt(i))
      /\ ShareAt(i, keys.housingPctKey) # Null =>
           /\ popups[i].link.housingPct = String(ShareAt(i, keys.housingPctKey))
           /\ popups[i].link.housingPct = popups[i].housingDisplay
      /\ ShareAt(i, keys.foodPctKey) # Null =>
           /\ popups[i].link.foodPct = String(ShareAt(i, keys.foodPctKey))
           /\ popups[i].link.foodPct = popups[i].foodDisplay


\* ------------------------------------------------- chart claims, SpecCalc
PageOpen == calc.version \in PageVersions

\* C28: chart instances never accumulate: after any sequence of
\* recomputations (page-load calculate, button clicks, input edits) at most
\* one chart instance is live, the module variable pieChart refers to it (or
\* is null when none is live), and every instance made earlier has been
\* destroyed before a new one is made.
C28_OneLiveChart ==
  /\ [](PageOpen =>
          /\ calc.live \in {0, 1}
          /\ calc.live = 1 <=> calc.chart # <<>>)
  /\ [][(PageOpen /\ calc'.chart # calc.chart /\ calc'.chart # <<>>) => calc'.live = 1]_vars

C28_Witness ==
  /\ PageOpen
  /\ calc.version \in {"CalcA", "CalcD", "Calc0"}
  /\ calc.edits = MaxEdits
  /\ calc.last = "click"
  /\ calc.live = 1
  /\ calc.chart # <<>>
  /\ calc.chart[5] = 2500 * Scale


\* --------------------------------------------------- report claims, Spec
Gated == variant = "Final"
\* the slug of the city name record i shows, written out for the cities of
\* the collections
CitySlugAt(i) ==
  LET city == Get(PropsAt(i), keys.cityKey)
  IN CASE city = Oslo -> <<"o", "s", "l", "o">>
       [] city = StIves -> <<"s", "t", "-", "i", "v", "e", "s">>
       [] OTHER -> <<"u", "n", "k", "n", "o", "w", "n">>

\* C29: in the boot sequence that gates report links, whichever of the two
\* fetches completes first, no popup is built before the active-cities load
\* has settled: activeCitySlugs has its final value when buildPopup runs, and
\* a popup contains the city-report link exactly when the slug of its city is
\* in that set.
C29_PopupsAfterActiveCities ==
  /\ []((Gated /\ (Rendered \/ popups # <<>> \/ markers # <<>>)) =>
          /\ active.pc = "settled"
          /\ \A i \in 1..Len(popups) :
               popups[i].hasReport <=> CitySlugAt(i) \in active.slugs)
  /\ [][(Gated /\ (Rendered \/ active.pc = "settled")) => active' = active]_vars

C29_Witness ==
  /\ Gated
  /\ Rendered
  /\ Len(popups) = 3
  /\ active.slugs = {<<"s", "t", "-", "i", "v", "e", "s">>, <<"u", "n", "k", "n", "o", "w", "n">>}
  /\ popups[1].title = <<"O", "s", "l", "o", ",", " ", "N", "O">>
  /\ ~popups[1].hasReport
  /\ popups[2].title = <<"S", "t", ".", " ", "I", "v", "e", "s">>
  /\ popups[2].hasReport
  /\ popups[3].hasReport

\* C30: a failure to load or parse the active-cities list is absorbed:
\* activeCitySlugs becomes the empty set, no failure notification is shown
\* for it, and the city collection is still rendered (the load handler is
\* not held back once the collection is parsed), with no popup carrying a
\* report link.
C30_ActiveFailureAbsorbed ==
  /\ []((Gated /\ active.failed) =>
          /\ active.pc = "settled"
          /\ active.slugs = {}
          /\ alerts > 0 => FetchFailed
          /\ BootReady
          /\ Rendered =>
               /\ Len(popups) = Len(Features)
               /\ \A i \in 1..Len(popups) : ~popups[i].hasReport)
  /\ [][(Gated /\ active.pc = "rejected" /\ active' # active) =>
          /\ active'.pc = "settled"
          /\ active'.failed
          /\ alerts' = alerts /\ pc' = pc /\ thrown' = thrown]_vars

C30_Witness ==
  /\ Gated
  /\ active.failed
  /\ active.body.kind = "object"
  /\ Rendered
  /\ alerts = 0
  /\ Len(popups) = 3
  /\ popups[1].title = <<"O", "s", "l", "o", ",", " ", "N", "O">>
  /\ ~popups[1].hasReport

====
